---- MODULE Spec2Model ----
(***************************************************************************)
(* A.EDUCACAO frontend: the adaptive media-resolution and rendering        *)
(* pipeline (mediaUtils, AdaptiveResponse), the exercise loader            *)
(* (ExerciseContent), the assessment flow (InteractivePrompt inside        *)
(* LearningPage) and the chat session of the Home page.                    *)
(*                                                                         *)
(* JavaScript strings are sequences of one-character strings, so that      *)
(* split, includes, startsWith, toLowerCase, trim and the regular          *)
(* expressions of the source act on the characters of their input.         *)
(* Each component has its own specification (SpecMedia, SpecResponse, ...) *)
(* over its own variables; the variables of the other components keep      *)
(* their initial values.                                                   *)
(***************************************************************************)
EXTENDS Naturals, Integers, Sequences, FiniteSets, TLC

(***************************************************************************)
(* String primitives (ECMAScript String.prototype, as used by the source)  *)
(***************************************************************************)

UpperCaseLetters == <<"A","B","C","D","E","F","G","H","I","J","K","L","M","N","O","P","Q","R","S","T","U","V","W","X","Y","Z","Á","É","Í","Ó","Ú","Ã","Ç">>

LowerCaseLetters == <<"a","b","c","d","e","f","g","h","i","j","k","l","m","n","o","p","q","r","s","t","u","v","w","x","y","z","á","é","í","ó","ú","ã","ç">>

Digits == {"0","1","2","3","4","5","6","7","8","9"}

\* String(n) for a one-digit number
Digit(n) == <<"0","1","2","3","4","5","6","7","8","9">>[n + 1]

WhiteSpace == {" ", "\n", "\t", "\r"}

Range(f) == {f[i] : i \in DOMAIN f}

Min(S) == CHOOSE x \in S : \A y \in S : x <= y

Max(S) == CHOOSE x \in S : \A y \in S : x >= y

\* String.prototype.toLowerCase, one character
ToLowerChar(c) ==
  IF \E i \in DOMAIN UpperCaseLetters : UpperCaseLetters[i] = c
  THEN LowerCaseLetters[CHOOSE i \in DOMAIN UpperCaseLetters : UpperCaseLetters[i] = c]
  ELSE c

toLowerCase(s) == [i \in 1..Len(s) |-> ToLowerChar(s[i])]

IsLetter(c) == c \in Range(UpperCaseLetters) \cup Range(LowerCaseLetters)

\* [a-zA-Z] of a regular expression: the ASCII letters only
IsAsciiLetter(c) == \E i \in 1..26 : c = UpperCaseLetters[i] \/ c = LowerCaseLetters[i]

\* [a-zA-Z0-9]
IsAlnum(c) == IsAsciiLetter(c) \/ c \in Digits

\* lit occurs in s at position i
StartsWithAt(s, lit, i) ==
  /\ i >= 1
  /\ i + Len(lit) - 1 <= Len(s)
  /\ \A k \in 1..Len(lit) : s[i + k - 1] = lit[k]

startsWith(s, lit) == StartsWithAt(s, lit, 1)

Occurrences(s, lit, from) == {i \in from..Len(s) : StartsWithAt(s, lit, i)}

\* lit, given in lower case, occurs in s at position i whatever the case of
\* the letters of s (the i flag of a regular expression)
MatchesAt(s, lit, i) ==
  /\ i >= 1
  /\ i + Len(lit) - 1 <= Len(s)
  /\ \A k \in 1..Len(lit) : ToLowerChar(s[i + k - 1]) = lit[k]

MatchPositions(s, lit, from) == {i \in from..Len(s) : MatchesAt(s, lit, i)}

\* String.prototype.indexOf, 1-based; 0 when lit does not occur at or after from
indexOf(s, lit, from) ==
  IF Occurrences(s, lit, from) = {} THEN 0 ELSE Min(Occurrences(s, lit, from))

includes(s, lit) == Occurrences(s, lit, 1) # {}

\* s.split(c).pop() for a one-character separator: what follows the last c,
\* the whole of s when c does not occur
SplitPop(s, c) ==
  LET last == Max({0} \cup {i \in 1..Len(s) : s[i] = c})
  IN  SubSeq(s, last + 1, Len(s))

\* s.split(sep)[1] for an s that contains sep: the piece between the first
\* occurrence of sep and the next one
SplitSecond(s, sep) ==
  LET first == indexOf(s, sep, 1)
      from  == first + Len(sep)
      next  == indexOf(s, sep, from)
  IN  SubSeq(s, from, IF next = 0 THEN Len(s) ELSE next - 1)

\* s.replace(/^\/+/, '')
StripLeadingSlashes(s) ==
  LET firstOther == Min({i \in 1..Len(s) : s[i] # "/"} \cup {Len(s) + 1})
  IN  SubSeq(s, firstOther, Len(s))

\* String.prototype.trim
trim(s) ==
  LET keep == {i \in 1..Len(s) : s[i] \notin WhiteSpace}
  IN  IF keep = {} THEN <<>> ELSE SubSeq(s, Min(keep), Max(keep))

(***************************************************************************)
(* State                                                                   *)
(***************************************************************************)

\* mediaUtils.ts applied to a path
VARIABLES mu_input, mu_url, mu_kind, mu_urlKind, mu_called

\* one AdaptiveResponse component
VARIABLES ar_data, ar_marker, ar_filePath, ar_blocks, ar_rendered

\* InteractivePrompt: its useState cells, and ip_completing, the call of
\* completeAssessment that is waiting for analyzeQuery
VARIABLES ip_userId, ip_currentStep, ip_isLoading, ip_knowledgeGaps,
          ip_preferredFormat, ip_userLevel, ip_currentQuestion, ip_questions,
          ip_userInput, ip_formatPreferences, ip_assessmentComplete, ip_error,
          ip_completing

\* LearningPage: its useState cells, and lp_completions, the arguments of
\* the calls of handleAssessmentComplete so far
VARIABLES lp_assessmentComplete, lp_assessmentResult, lp_completions

\* SearchForm and Home
VARIABLES sf_query, hm_isLoading, hm_responses, hm_queries, hm_error, hm_userId,
          hm_feedbackStatus, hm_inFlight, hm_calls, hm_received, hm_resolved

\* one ExerciseContent component
VARIABLES ex_filePath, ex_fetching, ex_url, ex_content, ex_exercises, ex_loading,
          ex_error, ex_selectedAnswers, ex_showResults

\* the feedback buttons of one AdaptiveResponse component
VARIABLES fb_data, fb_feedbackStatus, fb_internalFeedbackSubmitted,
          fb_isSubmittingFeedback, fb_pending, fb_sent, fb_logged

\* one AdaptiveLearningContent component and the AdaptiveResponse it mounts
VARIABLES al_knowledgeGaps, al_currentGapIndex, al_isLoading, al_response, al_error,
          al_feedbackStatus, al_exerciseMode, al_inFlight, al_fetches, al_shown,
          al_isSubmittingFeedback, al_posted

mediaVars == <<mu_input, mu_url, mu_kind, mu_urlKind, mu_called>>

responseVars == <<ar_data, ar_marker, ar_filePath, ar_blocks, ar_rendered>>

promptVars ==
  <<ip_userId, ip_currentStep, ip_isLoading, ip_knowledgeGaps, ip_preferredFormat,
    ip_userLevel, ip_currentQuestion, ip_questions, ip_userInput,
    ip_formatPreferences, ip_assessmentComplete, ip_error, ip_completing>>

learningPageVars == <<lp_assessmentComplete, lp_assessmentResult, lp_completions>>

assessVars == <<promptVars, learningPageVars>>

homePageVars ==
  <<hm_isLoading, hm_responses, hm_queries, hm_error, hm_userId, hm_feedbackStatus,
    hm_inFlight, hm_calls, hm_received, hm_resolved>>

homeVars == <<sf_query, homePageVars>>

exerciseVars ==
  <<ex_filePath, ex_fetching, ex_url, ex_content, ex_exercises, ex_loading, ex_error,
    ex_selectedAnswers, ex_showResults>>

feedbackVars ==
  <<fb_data, fb_feedbackStatus, fb_internalFeedbackSubmitted, fb_isSubmittingFeedback,
    fb_pending, fb_sent, fb_logged>>

learningVars ==
  <<al_knowledgeGaps, al_currentGapIndex, al_isLoading, al_response, al_error,
    al_feedbackStatus, al_exerciseMode, al_inFlight, al_fetches, al_shown,
    al_isSubmittingFeedback, al_posted>>

notMediaVars == <<responseVars, assessVars, homeVars, exerciseVars, feedbackVars, learningVars>>

notResponseVars == <<mediaVars, assessVars, homeVars, exerciseVars, feedbackVars, learningVars>>

notAssessVars == <<mediaVars, responseVars, homeVars, exerciseVars, feedbackVars, learningVars>>

notHomeVars == <<mediaVars, responseVars, assessVars, exerciseVars, feedbackVars, learningVars>>

notExerciseVars == <<mediaVars, responseVars, assessVars, homeVars, feedbackVars, learningVars>>

notFeedbackVars == <<mediaVars, responseVars, assessVars, homeVars, exerciseVars, learningVars>>

notLearningVars ==
  <<mediaVars, responseVars, assessVars, homeVars, exerciseVars, feedbackVars>>

vars ==
  <<mediaVars, responseVars, assessVars, homeVars, exerciseVars, feedbackVars, learningVars>>

(***************************************************************************)
(* utils/mediaUtils.ts                                                     *)
(***************************************************************************)

\* process.env.NEXT_PUBLIC_API_URL || 'http://localhost:8000'
apiUrl == <<"h","t","t","p",":","/","/","l","o","c","a","l","h","o","s","t",":","8","0","0","0">>

ProcessedData == <<"/","p","r","o","c","e","s","s","e","d","_","d","a","t","a","/">>

mediaDirs == {<<"t","e","x","t","/">>, <<"a","u","d","i","o","/">>, <<"v","i","d","e","o","s","/">>, <<"i","m","a","g","e","s","/">>, <<"t","r","a","n","s","c","r","i","p","t","s","/">>}

VideoExtensions == {<<"m","p","4">>, <<"a","v","i">>, <<"m","o","v">>, <<"m","k","v">>, <<"w","e","b","m">>}

AudioExtensions == {<<"m","p","3">>, <<"w","a","v">>, <<"o","g","g">>, <<"a","a","c">>, <<"m","4","a">>}

ImageExtensions == {<<"j","p","g">>, <<"j","p","e","g">>, <<"p","n","g">>, <<"g","i","f">>, <<"s","v","g">>, <<"w","e","b","p">>}

TextExtensions == {<<"t","x","t">>, <<"m","d">>, <<"p","d","f">>}

\* InferredPath with the extension compared as written
InferredPath_CaseSensitive(cleanPath) ==
  LET extension == SplitPop(cleanPath, ".")
  IN  IF extension \in VideoExtensions THEN <<"v","i","d","e","o","s","/">> \o cleanPath
      ELSE IF extension \in AudioExtensions THEN <<"a","u","d","i","o","/">> \o cleanPath
      ELSE IF extension \in ImageExtensions THEN <<"i","m","a","g","e","s","/">> \o cleanPath
      ELSE IF extension \in {<<"t","x","t">>, <<"m","d">>, <<"p","d","f">>} THEN <<"t","e","x","t","/">> \o cleanPath
      ELSE cleanPath

\* the directory validateMediaUrl puts in front of a path that names none
InferredPath(cleanPath) ==
  LET extension == SplitPop(toLowerCase(cleanPath), ".")
  IN  IF extension \in VideoExtensions THEN <<"v","i","d","e","o","s","/">> \o cleanPath
      ELSE IF extension \in AudioExtensions THEN <<"a","u","d","i","o","/">> \o cleanPath
      ELSE IF extension \in ImageExtensions THEN <<"i","m","a","g","e","s","/">> \o cleanPath
      ELSE IF extension \in {<<"t","x","t">>, <<"m","d">>, <<"p","d","f">>}
           THEN IF \/ includes(toLowerCase(cleanPath), <<"e","x","e","r","c","í","c","i","o">>)
                   \/ includes(toLowerCase(cleanPath), <<"e","x","e","r","c","i","c","i","o">>)
                   \/ includes(toLowerCase(cleanPath), <<"e","x","e","r","c","i","s","e">>)
                THEN <<"t","e","x","t","/">> \o cleanPath
                ELSE <<"t","e","x","t","/">> \o cleanPath
      ELSE cleanPath

\* validateMediaUrl without the test for a complete URL
validateMediaUrl_NoAbsolute(url) ==
  IF url = <<>> THEN <<>>
  ELSE IF startsWith(url, ProcessedData) THEN apiUrl \o url
  ELSE LET afterMarker == IF includes(url, ProcessedData)
                          THEN SplitSecond(url, ProcessedData)
                          ELSE url
           cleanPath   == StripLeadingSlashes(afterMarker)
           hasMediaDir == \E dir \in mediaDirs : startsWith(cleanPath, dir)
       IN  apiUrl \o ProcessedData
             \o (IF hasMediaDir THEN cleanPath ELSE InferredPath(cleanPath))

validateMediaUrl(url) ==
  IF url = <<>> THEN <<>>
  ELSE IF startsWith(url, <<"h","t","t","p",":","/","/">>) \/ startsWith(url, <<"h","t","t","p","s",":","/","/">>) THEN url
  ELSE IF startsWith(url, ProcessedData) THEN apiUrl \o url
  ELSE LET afterMarker == IF includes(url, ProcessedData)
                          THEN SplitSecond(url, ProcessedData)
                          ELSE url
           cleanPath   == StripLeadingSlashes(afterMarker)
           hasMediaDir == \E dir \in mediaDirs : startsWith(cleanPath, dir)
       IN  apiUrl \o ProcessedData
             \o (IF hasMediaDir THEN cleanPath ELSE InferredPath(cleanPath))

FileTypes == {"video", "audio", "image", "markdown", "exercises", "unknown"}

\* getFileType with the audio rule tried before the video rule
getFileType_AudioFirst(filePath) ==
  IF filePath = <<>> THEN "unknown"
  ELSE LET extension == SplitPop(toLowerCase(filePath), ".")
           path      == toLowerCase(filePath)
       IN  IF extension \in AudioExtensions \/ includes(path, <<"/","a","u","d","i","o","/">>) THEN "audio"
           ELSE IF extension \in VideoExtensions \/ includes(path, <<"/","v","i","d","e","o","s","/">>) THEN "video"
           ELSE IF extension \in ImageExtensions \/ includes(path, <<"/","i","m","a","g","e","s","/">>) THEN "image"
           ELSE IF \/ extension \in {<<"j","s","o","n">>}
                   \/ includes(path, <<"e","x","e","r","c","í","c","i","o","s">>)
                   \/ includes(path, <<"e","x","e","r","c","i","c","i","o","s">>) THEN "exercises"
           ELSE IF extension \in TextExtensions \/ includes(path, <<"/","t","e","x","t","/">>) THEN "markdown"
           ELSE "unknown"

getFileType(filePath) ==
  IF filePath = <<>> THEN "unknown"
  ELSE LET extension == SplitPop(toLowerCase(filePath), ".")
           path      == toLowerCase(filePath)
       IN  IF extension \in VideoExtensions \/ includes(path, <<"/","v","i","d","e","o","s","/">>) THEN "video"
           ELSE IF extension \in AudioExtensions \/ includes(path, <<"/","a","u","d","i","o","/">>) THEN "audio"
           ELSE IF extension \in ImageExtensions \/ includes(path, <<"/","i","m","a","g","e","s","/">>) THEN "image"
           ELSE IF \/ extension \in {<<"j","s","o","n">>}
                   \/ includes(path, <<"e","x","e","r","c","í","c","i","o","s">>)
                   \/ includes(path, <<"e","x","e","r","c","i","c","i","o","s">>) THEN "exercises"
           ELSE IF extension \in TextExtensions \/ includes(path, <<"/","t","e","x","t","/">>) THEN "markdown"
           ELSE "unknown"

(***************************************************************************)
(* The two functions of mediaUtils.ts applied to a path.                   *)
(*   mu_input    the path handed to validateMediaUrl and getFileType       *)
(*   mu_url      validateMediaUrl(mu_input), once called                   *)
(*   mu_kind     getFileType(mu_input), once called                        *)
(*   mu_urlKind  getFileType(mu_url), once called                          *)
(*   mu_called   which of the calls have been made                         *)
(***************************************************************************)
PathPrefixes ==
  { <<>>, <<"/">>, <<"/","/">>, <<"t","e","x","t","/">>, <<"v","i","d","e","o","s","/">>, <<"a","u","d","i","o","/">>, <<"i","m","a","g","e","s","/">>, <<"t","r","a","n","s","c","r","i","p","t","s","/">>,
    <<"/","v","i","d","e","o","s","/">>, <<"x","/","a","u","d","i","o","/">>, <<"x","/","i","m","a","g","e","s","/">>, <<"x","/","t","e","x","t","/">>, <<"d","o","c","s","/">>,
    <<"/","p","r","o","c","e","s","s","e","d","_","d","a","t","a","/">>, <<"/","h","o","m","e","/","u","/","p","r","o","c","e","s","s","e","d","_","d","a","t","a","/">>, <<"/","p","r","o","c","e","s","s","e","d","_","d","a","t","a","/","v","i","d","e","o","s","/">>,
    <<"/","h","o","m","e","/","u","/","p","r","o","c","e","s","s","e","d","_","d","a","t","a","/","a","u","d","i","o","/">>, <<"a","/","p","r","o","c","e","s","s","e","d","_","d","a","t","a","/","b","/","p","r","o","c","e","s","s","e","d","_","d","a","t","a","/">>,
    <<"h","t","t","p",":","/","/","c","d","n","/">>, <<"h","t","t","p","s",":","/","/","c","d","n","/">>, <<"H","T","T","P",":","/","/","c","d","n","/">>,
    <<"h","t","t","p","s",":","/","/","c","d","n","/","p","r","o","c","e","s","s","e","d","_","d","a","t","a","/">> }

PathStems == { <<"a">>, <<"E","x","e","r","c","í","c","i","o","s">>, <<"e","x","e","r","c","i","c","i","o","s">>, <<"E","x","e","r","c","i","s","e","s">>, <<"D","i","c","a"," ","d","o"," ","p","r","o","f","e","s","s","o","r">> }

PathSuffixes ==
  { <<>>, <<".">>, <<".","m","p","4">>, <<".","M","P","4">>, <<".","w","e","b","m">>, <<".","m","p","3">>, <<".","M","4","a">>, <<".","j","p","g">>, <<".","P","N","G">>, <<".","j","s","o","n">>,
    <<".","t","x","t">>, <<".","P","D","F">>, <<".","d","o","c","x">>, <<".","m","p","4",".","b","a","k">>,
    <<".","a","v","i">>, <<".","M","o","v">>, <<".","m","k","v">>, <<".","w","a","v">>, <<".","O","G","G">>, <<".","a","a","c">>, <<".","j","p","e","g">>, <<".","g","i","f">>, <<".","S","v","g">>, <<".","w","e","b","p">>, <<".","m","d">> }

MediaInputs ==
  { <<>>, <<"m","p","4">> }
    \cup { pre \o stem \o suf : pre \in PathPrefixes, stem \in PathStems, suf \in PathSuffixes }

MediaIdle ==
  /\ mu_input = <<>>
  /\ mu_url = <<>>
  /\ mu_kind = "none"
  /\ mu_urlKind = "none"
  /\ mu_called = {}

MediaInit ==
  /\ mu_input \in MediaInputs
  /\ mu_url = <<>>
  /\ mu_kind = "none"
  /\ mu_urlKind = "none"
  /\ mu_called = {}

CallValidateMediaUrl ==
  /\ "validateMediaUrl" \notin mu_called
  /\ mu_url' = validateMediaUrl(mu_input)
  /\ mu_called' = mu_called \cup {"validateMediaUrl"}
  /\ UNCHANGED <<mu_input, mu_kind, mu_urlKind>>
  /\ UNCHANGED notMediaVars

CallGetFileType ==
  /\ "getFileType" \notin mu_called
  /\ mu_kind' = getFileType(mu_input)
  /\ mu_called' = mu_called \cup {"getFileType"}
  /\ UNCHANGED <<mu_input, mu_url, mu_urlKind>>
  /\ UNCHANGED notMediaVars

\* the classifier applied to the URL the normalizer returned
CallGetFileTypeOfUrl ==
  /\ "validateMediaUrl" \in mu_called
  /\ "getFileTypeOfUrl" \notin mu_called
  /\ mu_urlKind' = getFileType(mu_url)
  /\ mu_called' = mu_called \cup {"getFileTypeOfUrl"}
  /\ UNCHANGED <<mu_input, mu_url, mu_kind>>
  /\ UNCHANGED notMediaVars

(***************************************************************************)
(* components/content/AdaptiveResponse.tsx: extractFilePath                *)
(*                                                                         *)
(* null and undefined are the one-element sequences Null and Undefined;    *)
(* no string equals them, a string being a sequence of single characters.  *)
(***************************************************************************)

Null == <<"null">>

Undefined == <<"undefined">>

\* what the dot of a regular expression does not match
LineTerminators == {"\n", "\r"}

\* JavaScript truthiness of a string | null | undefined
Truthy(v) == v # Null /\ v # Undefined /\ v # <<>>

\* the first position at or after p that holds no white space (\s*)
SkipWhiteSpace(text, p) ==
  Min({k \in p..(Len(text) + 1) : k = Len(text) + 1 \/ text[k] \notin WhiteSpace})

\* the last position of the run [^\s\n]+ that starts at p (p - 1 when empty)
TokenEnd(text, p) ==
  Min({k \in p..(Len(text) + 1) : k = Len(text) + 1 \/ text[k] \in WhiteSpace}) - 1

\* the last position of the run [^"\s\n]+ that starts at p (p - 1 when empty)
UnquotedEnd(text, p) ==
  Min({k \in p..(Len(text) + 1) :
         k = Len(text) + 1 \/ text[k] \in WhiteSpace \cup {"\""}}) - 1

\* /<!-- file_path: (.*?) -->/ : group 1 of the first match, Null without one.
\* The lazy group stops at the first " -->" and cannot cross a line end.
MatchComment(text) ==
  LET open   == <<"<","!","-","-"," ","f","i","l","e","_","p","a","t","h",":"," ">>
      close  == <<" ","-","-",">">>
      ends(i) == indexOf(text, close, i + Len(open))
      starts == {i \in Occurrences(text, open, 1) :
                   /\ ends(i) # 0
                   /\ \A k \in (i + Len(open))..(ends(i) - 1) : text[k] \notin LineTerminators}
  IN  IF starts = {} THEN Null
      ELSE SubSeq(text, Min(starts) + Len(open), ends(Min(starts)) - 1)

\* the three alternatives of the labelled-line pattern, tried at position p:
\*   \/[^\s\n]+  |  [a-zA-Z]:[\\\/][^\s\n]+  |  [^\s\n]+\.[a-zA-Z0-9]{2,4}
\* the end of the capture that starts at p, 0 when none matches
PathTokenEnd(text, p) ==
  LET q    == TokenEnd(text, p)
      dots == {d \in (p + 1)..(q - 2) :
                 text[d] = "." /\ IsAlnum(text[d + 1]) /\ IsAlnum(text[d + 2])}
      tail(d) == Max({n \in 2..4 : \A k \in 1..n : d + k <= q /\ IsAlnum(text[d + k])})
  IN  IF q < p THEN 0
      ELSE IF text[p] = "/" THEN (IF q >= p + 1 THEN q ELSE 0)
      ELSE IF /\ q >= p + 3
              /\ IsAsciiLetter(text[p])
              /\ text[p + 1] = ":"
              /\ text[p + 2] \in {"\\", "/"} THEN q
      ELSE IF dots # {} THEN Max(dots) + tail(Max(dots))
      ELSE 0

\* /(?:Arquivo|File):\s*(...)/i : group 1 of the first match, Null without one
MatchFileLine(text) ==
  LET labels == {<<"a","r","q","u","i","v","o",":">>, <<"f","i","l","e",":">>}
      from(i) == SkipWhiteSpace(text, i + Len(CHOOSE l \in labels : MatchesAt(text, l, i)))
      starts == {i \in 1..Len(text) :
                   /\ \E l \in labels : MatchesAt(text, l, i)
                   /\ PathTokenEnd(text, from(i)) # 0}
  IN  IF starts = {} THEN Null
      ELSE SubSeq(text, from(Min(starts)), PathTokenEnd(text, from(Min(starts))))

\* the lazy group (.*?\.(?:e1|e2|...)) tried at position p: the end of the
\* capture, 0 when the line of p holds no such extension at or after p
LazyExtensionEnd(text, p, exts) ==
  LET eol  == Min({k \in p..(Len(text) + 1) : k = Len(text) + 1 \/ text[k] \in LineTerminators})
      dots == {d \in p..(eol - 1) :
                 text[d] = "." /\ \E e \in exts : MatchesAt(text, e, d + 1)}
  IN  IF dots = {} THEN 0
      ELSE Min(dots) + Len(CHOOSE e \in exts : MatchesAt(text, e, Min(dots) + 1))

\* /\(?(?:L1|L2|...):\s*(.*?\.(?:exts))\)?/i
MatchLabelled(text, labels, exts) ==
  LET from(i) == SkipWhiteSpace(text, i + Len(CHOOSE l \in labels : MatchesAt(text, l, i)))
      starts == {i \in 1..Len(text) :
                   /\ \E l \in labels : MatchesAt(text, l, i)
                   /\ LazyExtensionEnd(text, from(i), exts) # 0}
  IN  IF starts = {} THEN Null
      ELSE SubSeq(text, from(Min(starts)), LazyExtensionEnd(text, from(Min(starts)), exts))

\* /Arquivo[^:]*:\s*(.*?\.(?:exts))/i : [^:]* runs to the first colon after
\* the word, across line ends
MatchArquivo(text, exts) ==
  LET word   == <<"a","r","q","u","i","v","o">>
      colon(i) == indexOf(text, <<":">>, i + Len(word))
      from(i)  == SkipWhiteSpace(text, colon(i) + 1)
      starts == {i \in MatchPositions(text, word, 1) :
                   /\ colon(i) # 0
                   /\ LazyExtensionEnd(text, from(i), exts) # 0}
  IN  IF starts = {} THEN Null
      ELSE SubSeq(text, from(Min(starts)), LazyExtensionEnd(text, from(Min(starts)), exts))

\* /(<root>[^"\s\n]+)/i
MatchRooted(text, root) ==
  LET starts == {i \in MatchPositions(text, root, 1) :
                   UnquotedEnd(text, i + Len(root)) >= i + Len(root)}
  IN  IF starts = {} THEN Null
      ELSE SubSeq(text, Min(starts), UnquotedEnd(text, Min(starts) + Len(root)))

\* /(<dir>[^"\s\n]+\.(?:exts))/i : the greedy run gives back characters down
\* to its last dot that an extension follows
MatchInDirectory(text, dir, exts) ==
  LET dots(i) == {d \in (i + Len(dir) + 1)..UnquotedEnd(text, i + Len(dir)) :
                    text[d] = "." /\ \E e \in exts : MatchesAt(text, e, d + 1)}
      starts  == {i \in MatchPositions(text, dir, 1) : dots(i) # {}}
      last    == Max(dots(Min(starts)))
  IN  IF starts = {} THEN Null
      ELSE SubSeq(text, Min(starts),
                  last + Len(CHOOSE e \in exts : MatchesAt(text, e, last + 1)))

\* /(<name>\.(?:exts))/i for a fixed file name
MatchFixed(text, name, exts) ==
  LET starts == {i \in MatchPositions(text, name \o <<".">>, 1) :
                   \E e \in exts : MatchesAt(text, e, i + Len(name) + 1)}
  IN  IF starts = {} THEN Null
      ELSE SubSeq(text, Min(starts),
                  Min(starts) + Len(name)
                    + Len(CHOOSE e \in exts : MatchesAt(text, e, Min(starts) + Len(name) + 1)))

\* the patterns array of extractFilePath, in its order; each entry names the
\* shape of its regular expression, its labels or literal prefix (in lower
\* case, the patterns having the i flag) and its extensions
patterns == <<
  [type |-> "video", shape |-> "labelled", labels |-> {<<"v","i","d","e","o",":">>, <<"v","í","d","e","o",":">>},
   lit |-> <<>>, exts |-> VideoExtensions],
  [type |-> "video", shape |-> "arquivo", labels |-> {},
   lit |-> <<>>, exts |-> VideoExtensions],
  [type |-> "video", shape |-> "rooted", labels |-> {},
   lit |-> <<"/","p","r","o","c","e","s","s","e","d","_","d","a","t","a","/","v","i","d","e","o","s","/">>, exts |-> {}],
  [type |-> "video", shape |-> "directory", labels |-> {},
   lit |-> <<"v","i","d","e","o","s","/">>, exts |-> VideoExtensions],
  [type |-> "audio", shape |-> "labelled", labels |-> {<<"a","u","d","i","o",":">>, <<"á","u","d","i","o",":">>},
   lit |-> <<>>, exts |-> AudioExtensions],
  [type |-> "audio", shape |-> "arquivo", labels |-> {},
   lit |-> <<>>, exts |-> AudioExtensions],
  [type |-> "audio", shape |-> "rooted", labels |-> {},
   lit |-> <<"/","p","r","o","c","e","s","s","e","d","_","d","a","t","a","/","a","u","d","i","o","/">>, exts |-> {}],
  [type |-> "audio", shape |-> "directory", labels |-> {},
   lit |-> <<"a","u","d","i","o","/">>, exts |-> AudioExtensions],
  [type |-> "image", shape |-> "labelled", labels |-> {<<"i","m","a","g","e","m",":">>, <<"i","m","a","g","e",":">>},
   lit |-> <<>>, exts |-> ImageExtensions],
  [type |-> "image", shape |-> "arquivo", labels |-> {},
   lit |-> <<>>, exts |-> ImageExtensions],
  [type |-> "image", shape |-> "rooted", labels |-> {},
   lit |-> <<"/","p","r","o","c","e","s","s","e","d","_","d","a","t","a","/","i","m","a","g","e","s","/">>, exts |-> {}],
  [type |-> "image", shape |-> "directory", labels |-> {},
   lit |-> <<"i","m","a","g","e","s","/">>, exts |-> ImageExtensions],
  [type |-> "exercises", shape |-> "labelled", labels |-> {<<"e","x","e","r","c","í","c","i","o","s",":">>, <<"e","x","e","r","c","i","c","i","o","s",":">>, <<"e","x","e","r","c","i","s","e","s",":">>}, lit |-> <<>>,
   exts |-> {<<"j","s","o","n">>, <<"t","x","t">>}],
  [type |-> "exercises", shape |-> "arquivo", labels |-> {},
   lit |-> <<>>, exts |-> {<<"j","s","o","n">>}],
  [type |-> "exercises", shape |-> "fixed", labels |-> {},
   lit |-> <<"/","p","r","o","c","e","s","s","e","d","_","d","a","t","a","/","t","e","x","t","/","e","x","e","r","c","í","c","i","o","s">>, exts |-> {<<"t","x","t">>, <<"j","s","o","n">>}],
  [type |-> "exercises", shape |-> "fixed", labels |-> {},
   lit |-> <<"t","e","x","t","/","e","x","e","r","c","í","c","i","o","s">>, exts |-> {<<"t","x","t">>, <<"j","s","o","n">>}],
  [type |-> "text", shape |-> "labelled", labels |-> {<<"t","e","x","t","o",":">>, <<"t","e","x","t",":">>},
   lit |-> <<>>, exts |-> {<<"t","x","t">>, <<"m","d">>, <<"p","d","f">>}],
  [type |-> "text", shape |-> "rooted", labels |-> {},
   lit |-> <<"/","p","r","o","c","e","s","s","e","d","_","d","a","t","a","/","t","e","x","t","/">>, exts |-> {}],
  [type |-> "text", shape |-> "directory", labels |-> {},
   lit |-> <<"t","e","x","t","/">>, exts |-> {<<"t","x","t">>, <<"m","d">>, <<"p","d","f">>}] >>

\* text.match(pattern): group 1 of the first match, Null without one
MatchPattern(text, pattern) ==
  IF pattern.shape = "labelled" THEN MatchLabelled(text, pattern.labels, pattern.exts)
  ELSE IF pattern.shape = "arquivo" THEN MatchArquivo(text, pattern.exts)
  ELSE IF pattern.shape = "rooted" THEN MatchRooted(text, pattern.lit)
  ELSE IF pattern.shape = "directory" THEN MatchInDirectory(text, pattern.lit, pattern.exts)
  ELSE MatchFixed(text, pattern.lit, pattern.exts)

\* the loop over patterns run from the last pattern to the first
MatchMediaPatterns_Reversed(text) ==
  IF \E n \in DOMAIN patterns : Truthy(MatchPattern(text, patterns[n]))
  THEN MatchPattern(text, patterns[
         CHOOSE n \in DOMAIN patterns :
           /\ Truthy(MatchPattern(text, patterns[n]))
           /\ \A m \in (n + 1)..Len(patterns) : ~Truthy(MatchPattern(text, patterns[m]))])
  ELSE Null

\* the loop over patterns: group 1 of the first pattern that matches
MatchMediaPatterns(text) ==
  IF \E n \in DOMAIN patterns : Truthy(MatchPattern(text, patterns[n]))
  THEN MatchPattern(text, patterns[
         CHOOSE n \in DOMAIN patterns :
           /\ Truthy(MatchPattern(text, patterns[n]))
           /\ \A m \in 1..(n - 1) : ~Truthy(MatchPattern(text, patterns[m]))])
  ELSE Null

\* const defaultFiles of extractFilePath, Undefined for a key it lacks
defaultFiles(mediaType) ==
  IF mediaType = <<"v","i","d","e","o">> THEN <<"v","i","d","e","o","s","/","D","i","c","a"," ","d","o"," ","p","r","o","f","e","s","s","o","r",".","m","p","4">>
  ELSE IF mediaType = <<"a","u","d","i","o">> THEN <<"a","u","d","i","o","/","D","i","c","a"," ","d","o"," ","p","r","o","f","e","s","s","o","r",".","m","p","3">>
  ELSE IF mediaType = <<"i","m","a","g","e">> THEN <<"i","m","a","g","e","s","/","I","n","f","o","g","r","a","f","i","c","o","-","1",".","j","p","g">>
  ELSE IF mediaType = <<"t","e","x","t">> THEN <<"t","e","x","t","/","A","p","r","e","s","e","n","t","a","ç","ã","o",".","t","x","t">>
  ELSE IF mediaType = <<"e","x","e","r","c","i","s","e","s">> THEN <<"t","e","x","t","/","E","x","e","r","c","í","c","i","o","s",".","t","x","t">>
  ELSE Undefined

\* extractFilePath with the labelled line tried before the comment marker
extractFilePath_FileLineFirst(text, data) ==
  IF Truthy(MatchFileLine(text)) THEN MatchFileLine(text)
  ELSE IF Truthy(MatchComment(text)) THEN MatchComment(text)
  ELSE IF Truthy(MatchMediaPatterns(text)) THEN MatchMediaPatterns(text)
  ELSE IF Truthy(data.file_path) THEN data.file_path
  ELSE IF /\ Truthy(data.primary_media_type)
          /\ Truthy(defaultFiles(toLowerCase(data.primary_media_type)))
       THEN defaultFiles(toLowerCase(data.primary_media_type))
  ELSE Null

\* extractFilePath with the file_path property tried before the media patterns
extractFilePath_FieldFirst(text, data) ==
  IF Truthy(MatchComment(text)) THEN MatchComment(text)
  ELSE IF Truthy(MatchFileLine(text)) THEN MatchFileLine(text)
  ELSE IF Truthy(data.file_path) THEN data.file_path
  ELSE IF Truthy(MatchMediaPatterns(text)) THEN MatchMediaPatterns(text)
  ELSE IF /\ Truthy(data.primary_media_type)
          /\ Truthy(defaultFiles(toLowerCase(data.primary_media_type)))
       THEN defaultFiles(toLowerCase(data.primary_media_type))
  ELSE Null

\* extractFilePath(text), data being the component's prop
extractFilePath(text, data) ==
  IF Truthy(MatchComment(text)) THEN MatchComment(text)
  ELSE IF Truthy(MatchFileLine(text)) THEN MatchFileLine(text)
  ELSE IF Truthy(MatchMediaPatterns(text)) THEN MatchMediaPatterns(text)
  ELSE IF Truthy(data.file_path) THEN data.file_path
  ELSE IF /\ Truthy(data.primary_media_type)
          /\ Truthy(defaultFiles(toLowerCase(data.primary_media_type)))
       THEN defaultFiles(toLowerCase(data.primary_media_type))
  ELSE Null

(***************************************************************************)
(* AdaptiveResponse.tsx: renderFileContent and the render helpers.         *)
(* What is rendered is the sequence of media blocks, each a widget and     *)
(* the URL it is given.                                                    *)
(***************************************************************************)

\* renderVideoContent, renderAudioContent, renderImageContent,
\* renderExercisesContent, renderMarkdownContent
renderBlock(widget, filePath) ==
  IF ~Truthy(filePath) THEN <<>>
  ELSE << [widget |-> widget, src |-> validateMediaUrl(filePath)] >>

\* renderContentByType without the case for markdown
renderContentByType_NoMarkdown(filePath) ==
  LET fileType == getFileType(filePath)
  IN  IF fileType = "video" THEN renderBlock("video", filePath)
      ELSE IF fileType = "audio" THEN renderBlock("audio", filePath)
      ELSE IF fileType = "image" THEN renderBlock("image", filePath)
      ELSE IF fileType = "exercises" THEN renderBlock("exercises", filePath)
      ELSE <<>>

renderContentByType(filePath) ==
  LET fileType == getFileType(filePath)
  IN  IF fileType = "video" THEN renderBlock("video", filePath)
      ELSE IF fileType = "audio" THEN renderBlock("audio", filePath)
      ELSE IF fileType = "image" THEN renderBlock("image", filePath)
      ELSE IF fileType = "exercises" THEN renderBlock("exercises", filePath)
      ELSE IF fileType = "markdown" THEN renderBlock("markdown", filePath)
      ELSE <<>>

\* const defaultMedia of renderFileContent
defaultMedia(primary_media_type) ==
  IF primary_media_type = <<"v","i","d","e","o">> THEN <<"v","i","d","e","o","s","/","D","i","c","a"," ","d","o"," ","p","r","o","f","e","s","s","o","r",".","m","p","4">>
  ELSE IF primary_media_type = <<"a","u","d","i","o">> THEN <<"a","u","d","i","o","/","D","i","c","a"," ","d","o"," ","p","r","o","f","e","s","s","o","r",".","m","p","3">>
  ELSE IF primary_media_type = <<"i","m","a","g","e">> THEN <<"i","m","a","g","e","s","/","I","n","f","o","g","r","a","f","i","c","o","-","1",".","j","p","g">>
  ELSE IF primary_media_type = <<"e","x","e","r","c","i","s","e","s">> THEN <<"t","e","x","t","/","E","x","e","r","c","í","c","i","o","s",".","t","x","t">>
  ELSE IF primary_media_type = <<"t","e","x","t">> THEN <<"t","e","x","t","/","C","a","p","í","t","u","l","o"," ","d","o"," ","L","i","v","r","o",".","t","x","t">>
  ELSE Undefined

\* the four blocks of the "mixed" branch
MixedDefaultBlocks ==
  renderBlock("video", <<"v","i","d","e","o","s","/","D","i","c","a"," ","d","o"," ","p","r","o","f","e","s","s","o","r",".","m","p","4">>)
    \o renderBlock("audio", <<"a","u","d","i","o","/","D","i","c","a"," ","d","o"," ","p","r","o","f","e","s","s","o","r",".","m","p","3">>)
    \o renderBlock("image", <<"i","m","a","g","e","s","/","I","n","f","o","g","r","a","f","i","c","o","-","1",".","j","p","g">>)
    \o renderBlock("exercises", <<"t","e","x","t","/","E","x","e","r","c","í","c","i","o","s",".","t","x","t">>)

\* renderFileContent taking every type without a default file as mixed
renderFileContent_UnknownAsMixed(data) ==
  LET filePath == extractFilePath(data.response, data)
  IN  IF ~Truthy(defaultMedia(data.primary_media_type))
      THEN MixedDefaultBlocks
             \o (IF Truthy(filePath) THEN renderContentByType(filePath) ELSE <<>>)
      ELSE IF Truthy(filePath) THEN renderContentByType(filePath)
      ELSE renderContentByType(defaultMedia(data.primary_media_type))

\* renderFileContent without the branch for 'mixed' and absent types
renderFileContent_NoMixed(data) ==
  LET filePath == extractFilePath(data.response, data)
  IN  IF Truthy(filePath) THEN renderContentByType(filePath)
      ELSE IF /\ Truthy(data.primary_media_type)
              /\ Truthy(defaultMedia(data.primary_media_type))
           THEN renderContentByType(defaultMedia(data.primary_media_type))
      ELSE <<>>

renderFileContent(data) ==
  LET filePath == extractFilePath(data.response, data)
  IN  IF data.primary_media_type = <<"m","i","x","e","d">> \/ ~Truthy(data.primary_media_type)
      THEN MixedDefaultBlocks
             \o (IF Truthy(filePath) THEN renderContentByType(filePath) ELSE <<>>)
      ELSE IF Truthy(filePath) THEN renderContentByType(filePath)
      ELSE IF /\ Truthy(data.primary_media_type)
              /\ Truthy(defaultMedia(data.primary_media_type))
           THEN renderContentByType(defaultMedia(data.primary_media_type))
      ELSE <<>>

(***************************************************************************)
(* One AdaptiveResponse component given a response object.                 *)
(*   ar_data      the data prop: response, file_path, primary_media_type   *)
(*   ar_marker    the path of the first comment marker written into        *)
(*                ar_data.response, Null when it has none                  *)
(*   ar_filePath  what extractFilePath returned in the last render         *)
(*   ar_blocks    the media blocks of the last render                      *)
(*   ar_rendered  whether the component has rendered                       *)
(***************************************************************************)

\* text in front of the marker position; none holds a comment marker
TextBefore ==
  { <<>>,
    <<"R","e","s","u","m","o"," ","d","a"," ","a","u","l","a",".","\n","\n">>,
    <<"A","r","q","u","i","v","o",":"," ","a","u","d","i","o","/","A","u","l","a",".","m","p","3">>,
    <<"A","r","q","u","i","v","o",":"," ","a","u","d","i","o","/","A","u","l","a",".","m","p","3","\n">>,
    <<"F","i","l","e",":"," ","C",":","\\","m","\\","a",".","p","n","g"," ","\n">>,
    <<"(","V","í","d","e","o",":"," ","v","i","d","e","o","s","/","D","i","c","a"," ","d","o"," ","p","r","o","f","e","s","s","o","r",".","m","p","4",")","\n">>,
    <<"A","r","q","u","i","v","o"," ","d","e"," ","a","p","o","i","o",":"," ","g","u","i","a",".","j","s","o","n","\n">>,
    <<"A","r","q","u","i","v","o",":"," ","n","o","t","a","s",".","d","o","c","x","\n">>,
    <<"O","u","ç","a"," ","a","u","d","i","o","/","A","u","l","a",".","m","p","3"," ","e"," ","v","e","j","a"," ","v","i","d","e","o","s","/","A","u","l","a",".","m","p","4","\n">>,
    <<"A","r","q","u","i","v","o",":"," ","v","e","j","a"," ","a","b","a","i","x","o","\n">>,
    <<"V","e","j","a"," ","\"","i","m","a","g","e","s","/","i",".","P","N","G","\""," ","e"," ","/","p","r","o","c","e","s","s","e","d","_","d","a","t","a","/","t","e","x","t","/","c","a","p"," ","1",".","t","x","t","\n">> }

\* the paths comment markers carry
MarkerPaths == { <<"v","i","d","e","o","s","/","x",".","m","p","4">>, <<"t","e","x","t","/","C","a","p","í","t","u","l","o"," ","d","o"," ","L","i","v","r","o",".","t","x","t">> }

\* text after the marker position
TextAfter ==
  { <<>>,
    <<"\n","A","r","q","u","i","v","o",":"," ","t","e","x","t","/","o","u","t","r","o",".","t","x","t">>,
    <<"\n","Á","u","d","i","o",":"," ","a","u","d","i","o","/","b",".","o","g","g","\n","I","m","a","g","e","m",":"," ","i","m","a","g","e","s","/","c",".","g","i","f">>,
    <<"\n","<","!","-","-"," ","f","i","l","e","_","p","a","t","h",":"," ","a","u","d","i","o","/","y",".","m","p","3"," ","-","-",">">>,
    <<"\n","S","e","m"," ","m","í","d","i","a",".">> }

CommentMarker(path) == <<"<","!","-","-"," ","f","i","l","e","_","p","a","t","h",":"," ">> \o path \o <<" ","-","-",">">>

FilePathFields == { Undefined, <<>>, <<"t","e","x","t","/","A","p","r","e","s","e","n","t","a","ç","ã","o",".","t","x","t">> }

PrimaryMediaTypes ==
  { Undefined, <<>>, <<"v","i","d","e","o">>, <<"a","u","d","i","o">>, <<"i","m","a","g","e">>, <<"t","e","x","t">>, <<"e","x","e","r","c","i","s","e","s">>, <<"m","i","x","e","d">>, <<"V","i","d","e","o">>, <<"d","o","c","u","m","e","n","t">> }

ResponseIdle ==
  /\ ar_data = [response |-> <<>>, file_path |-> Undefined, primary_media_type |-> Undefined]
  /\ ar_marker = Null
  /\ ar_filePath = Undefined
  /\ ar_blocks = <<>>
  /\ ar_rendered = FALSE

ResponseInit ==
  /\ \E before \in TextBefore, after \in TextAfter, marker \in MarkerPaths \cup {Null},
        fp \in FilePathFields, pmt \in PrimaryMediaTypes :
       /\ ar_marker = marker
       /\ ar_data = [ response |-> before
                                     \o (IF marker = Null THEN <<>> ELSE CommentMarker(marker))
                                     \o after,
                      file_path |-> fp,
                      primary_media_type |-> pmt ]
       \* both parents drop a response whose text is empty
       /\ ar_data.response # <<>>
  /\ ar_filePath = Undefined
  /\ ar_blocks = <<>>
  /\ ar_rendered = FALSE

\* the component function runs: renderFileContent, which calls extractFilePath
RenderAdaptiveResponse ==
  /\ ~ar_rendered
  /\ ar_filePath' = extractFilePath(ar_data.response, ar_data)
  /\ ar_blocks' = renderFileContent(ar_data)
  /\ ar_rendered' = TRUE
  /\ UNCHANGED <<ar_data, ar_marker>>
  /\ UNCHANGED notResponseVars

(***************************************************************************)
(* components/content/InteractivePrompt.tsx inside app/learning/page.tsx   *)
(*                                                                         *)
(* An object that may be null is a sequence: empty when null, holding the  *)
(* object otherwise.                                                       *)
(***************************************************************************)

\* s.replace(lit, by) with a string pattern: the first occurrence only
replace(s, lit, by) ==
  IF indexOf(s, lit, 1) = 0 THEN s
  ELSE SubSeq(s, 1, indexOf(s, lit, 1) - 1) \o by
         \o SubSeq(s, indexOf(s, lit, 1) + Len(lit), Len(s))

\* const topics
topics == << <<"H","T","M","L">>, <<"C","S","S">>, <<"J","a","v","a","S","c","r","i","p","t">>, <<"A","c","e","s","s","i","b","i","l","i","d","a","d","e"," ","W","e","b">>, <<"R","e","s","p","o","n","s","i","v","i","d","a","d","e">> >>

Levels == << <<"i","n","i","c","i","a","n","t","e">>, <<"i","n","t","e","r","m","e","d","i","á","r","i","o">>, <<"a","v","a","n","ç","a","d","o">> >>

Formats == << <<"t","e","x","t","o">>, <<"v","í","d","e","o">>, <<"á","u","d","i","o">>, <<"i","m","a","g","e","m">> >>

\* generateInitialQuestions: the list given to setQuestions
generatedQuestions ==
  [index \in 1..Len(topics) |->
     [id |-> index,
      text |-> <<"Q","u","a","l"," ","é"," ","s","e","u"," ","n","í","v","e","l"," ","d","e"," ","c","o","n","h","e","c","i","m","e","n","t","o"," ","e","m"," ">> \o topics[index] \o <<"?">>,
      type |-> "multiple-choice",
      options |-> Levels,
      userResponse |-> Undefined]]
  \o << [id |-> Len(topics) + 1,
         text |-> <<"Q","u","a","l"," ","f","o","r","m","a","t","o"," ","v","o","c","ê"," ","p","r","e","f","e","r","e"," ","p","a","r","a"," ","a","p","r","e","n","d","e","r"," ","n","o","v","o","s"," ","c","o","n","t","e","ú","d","o","s","?">>,
         type |-> "multiple-choice",
         options |-> Formats,
         userResponse |-> Undefined] >>

knowledgeQuestions ==
  << [id |-> Len(topics) + 2,
      text |-> <<"O"," ","q","u","e"," ","é"," ","H","T","M","L"," ","e"," ","q","u","a","l"," ","s","u","a"," ","f","u","n","ç","ã","o"," ","n","o"," ","d","e","s","e","n","v","o","l","v","i","m","e","n","t","o"," ","w","e","b","?">>,
      type |-> "open-ended",
      options |-> <<>>,
      userResponse |-> Undefined],
     [id |-> Len(topics) + 3,
      text |-> <<"D","e","s","c","r","e","v","a"," ","b","r","e","v","e","m","e","n","t","e"," ","a"," ","e","s","t","r","u","t","u","r","a"," ","b","á","s","i","c","a"," ","d","e"," ","u","m","a"," ","p","á","g","i","n","a"," ","H","T","M","L",".">>,
      type |-> "open-ended",
      options |-> <<>>,
      userResponse |-> Undefined] >>

\* findIndex that answers one position too far
findIndex_Skip(questions, id) ==
  IF \E i \in DOMAIN questions : questions[i].id = id
  THEN 1 + CHOOSE i \in DOMAIN questions :
             questions[i].id = id /\ \A j \in 1..(i - 1) : questions[j].id # id
  ELSE 0

\* questions.findIndex(q => q.id === id), counted from 1; 0 when absent
findIndex(questions, id) ==
  IF \E i \in DOMAIN questions : questions[i].id = id
  THEN CHOOSE i \in DOMAIN questions :
         questions[i].id = id /\ \A j \in 1..(i - 1) : questions[j].id # id
  ELSE 0

\* updateUserLevel with ">=" in place of ">": the last level of a tie wins
updateUserLevel_LastWins(updatedQuestions, userLevel) ==
  LET count(level) ==
        Cardinality({i \in DOMAIN updatedQuestions :
                       updatedQuestions[i].userResponse = level})
      afterFirst  == Levels[1]
      maxFirst    == count(Levels[1])
      afterSecond == IF count(Levels[2]) >= maxFirst THEN Levels[2] ELSE afterFirst
      maxSecond   == Max({maxFirst, count(Levels[2])})
      afterThird  == IF count(Levels[3]) >= maxSecond THEN Levels[3] ELSE afterSecond
  IN  IF \E i \in DOMAIN updatedQuestions, l \in Range(Levels) :
           updatedQuestions[i].userResponse = l
      THEN afterThird
      ELSE userLevel

\* updateUserLevel: the level given to setUserLevel, userLevel when it makes
\* no call.  Object.entries visits iniciante, intermediário, avançado.
updateUserLevel(updatedQuestions, userLevel) ==
  LET count(level) ==
        Cardinality({i \in DOMAIN updatedQuestions :
                       updatedQuestions[i].userResponse = level})
      afterFirst  == IF count(Levels[1]) > 0 THEN Levels[1] ELSE <<"i","n","t","e","r","m","e","d","i","á","r","i","o">>
      maxFirst    == count(Levels[1])
      afterSecond == IF count(Levels[2]) > maxFirst THEN Levels[2] ELSE afterFirst
      maxSecond   == Max({maxFirst, count(Levels[2])})
      afterThird  == IF count(Levels[3]) > maxSecond THEN Levels[3] ELSE afterSecond
  IN  IF \E i \in DOMAIN updatedQuestions, l \in Range(Levels) :
           updatedQuestions[i].userResponse = l
      THEN afterThird
      ELSE userLevel

\* handleAnswer: the topic of a level question
TopicAsked_WithMark(text) == SplitSecond(text, <<"e","m"," ">>)

TopicAsked(text) == replace(SplitSecond(text, <<"e","m"," ">>), <<"?">>, <<>>)

\* completeAssessment: the topic of an open-ended question
TopicEvaluated(text) ==
  IF includes(text, <<"H","T","M","L">>) THEN <<"H","T","M","L">>
  ELSE IF includes(text, <<"C","S","S">>) THEN <<"C","S","S">>
  ELSE IF includes(text, <<"J","a","v","a","S","c","r","i","p","t">>) THEN <<"J","a","v","a","S","c","r","i","p","t">>
  ELSE <<"D","e","s","e","n","v","o","l","v","i","m","e","n","t","o"," ","W","e","b">>

\* completeAssessment: whether an evaluation signals a gap
SignalsGap(response) ==
  \/ includes(toLowerCase(response), <<"i","n","c","o","r","r","e","t","o">>)
  \/ includes(toLowerCase(response), <<"i","n","c","o","m","p","l","e","t","o">>)

\* LearningPage.handleAssessmentComplete without its second setState
handleAssessmentComplete_KeepPrompt(result) ==
  [assessmentResult |-> <<result>>, assessmentComplete |-> FALSE]

\* LearningPage.handleAssessmentComplete: the state it sets
handleAssessmentComplete(result) ==
  [assessmentResult |-> <<result>>, assessmentComplete |-> TRUE]

\* LearningPage renders InteractivePrompt while its assessmentComplete is false
PromptMounted == ~lp_assessmentComplete

\* what InteractivePrompt shows
InitialScreenShown == PromptMounted /\ ~ip_isLoading /\ ip_currentStep = 0

QuestionShown ==
  /\ PromptMounted
  /\ ~ip_isLoading
  /\ ip_currentStep > 0
  /\ ~ip_assessmentComplete
  /\ ip_currentQuestion # <<>>

CompletionScreenShown == PromptMounted /\ ~ip_isLoading /\ ip_assessmentComplete

\* the state after the first render of LearningPage
AssessInit ==
  /\ ip_userId = <<>>
  /\ ip_currentStep = 0
  /\ ip_isLoading = FALSE
  /\ ip_knowledgeGaps = <<>>
  /\ ip_preferredFormat = <<"t","e","x","t","o">>
  /\ ip_userLevel = <<"i","n","t","e","r","m","e","d","i","á","r","i","o">>
  /\ ip_currentQuestion = <<>>
  /\ ip_questions = <<>>
  /\ ip_userInput = <<>>
  /\ ip_formatPreferences = [f \in Range(Formats) |-> 0]
  /\ ip_assessmentComplete = FALSE
  /\ ip_error = <<>>
  /\ ip_completing = <<>>
  /\ lp_assessmentComplete = FALSE
  /\ lp_assessmentResult = <<>>
  /\ lp_completions = <<>>

AssessIdle == AssessInit

\* what the user puts into the "ID do Usuário" field: typed or pasted text
UserIdInputs == { <<" ">>, <<"u","1">> }

\* what the user writes into the textarea of an open-ended question
OpenAnswers == { <<"H","T","M","L">>, <<"L","i","n","g","u","a","g","e","m"," ","d","e"," ","m","a","r","c","a","ç","ã","o"," ","d","e"," ","p","á","g","i","n","a","s">> }

\* the response texts of the analysis service
AnalysisTexts ==
  { <<"A"," ","r","e","s","p","o","s","t","a"," ","e","s","t","á"," ","c","o","r","r","e","t","a",".">>,
    <<"I","n","c","o","r","r","e","t","o",":"," ","H","T","M","L"," ","n","ã","o"," ","é"," ","u","m","a"," ","l","i","n","g","u","a","g","e","m"," ","d","e"," ","p","r","o","g","r","a","m","a","ç","ã","o",".">>,
    <<"B","o","m"," ","c","o","m","e","ç","o",","," ","m","a","s"," ","I","N","C","O","M","P","L","E","T","O",".">> }

\* onChange of the user id field, then the effect on [userId, currentStep],
\* which calls generateInitialQuestions once userId is truthy
ChangeUserId ==
  /\ InitialScreenShown
  /\ \E value \in UserIdInputs :
       /\ ip_userId' = value
       /\ IF ip_currentStep = 0 /\ Truthy(value)
          THEN /\ ip_questions' = generatedQuestions \o knowledgeQuestions
               /\ ip_currentQuestion' = << generatedQuestions[1] >>
               /\ ip_currentStep' = 1
          ELSE UNCHANGED <<ip_questions, ip_currentQuestion, ip_currentStep>>
  /\ UNCHANGED <<ip_isLoading, ip_knowledgeGaps, ip_preferredFormat, ip_userLevel,
                 ip_userInput, ip_formatPreferences, ip_assessmentComplete,
                 ip_error, ip_completing>>
  /\ UNCHANGED learningPageVars
  /\ UNCHANGED notAssessVars

\* RadioGroup onChange on a multiple-choice question
SelectOption ==
  /\ QuestionShown
  /\ ip_currentQuestion[1].type = "multiple-choice"
  /\ \E value \in Range(ip_currentQuestion[1].options) : ip_userInput' = value
  /\ UNCHANGED <<ip_userId, ip_currentStep, ip_isLoading, ip_knowledgeGaps,
                 ip_preferredFormat, ip_userLevel, ip_currentQuestion, ip_questions,
                 ip_formatPreferences, ip_assessmentComplete, ip_error, ip_completing>>
  /\ UNCHANGED learningPageVars
  /\ UNCHANGED notAssessVars

\* textarea onChange on an open-ended question
TypeAnswer ==
  /\ QuestionShown
  /\ ip_currentQuestion[1].type = "open-ended"
  /\ \E value \in OpenAnswers : ip_userInput' = value
  /\ UNCHANGED <<ip_userId, ip_currentStep, ip_isLoading, ip_knowledgeGaps,
                 ip_preferredFormat, ip_userLevel, ip_currentQuestion, ip_questions,
                 ip_formatPreferences, ip_assessmentComplete, ip_error, ip_completing>>
  /\ UNCHANGED learningPageVars
  /\ UNCHANGED notAssessVars

\* whether the "Próxima" button of the question shown is enabled
NextEnabled ==
  IF ip_currentQuestion[1].type = "multiple-choice"
  THEN Truthy(ip_userInput)
  ELSE ~(Len(trim(ip_userInput)) < 5)

\* click on "Próxima": handleAnswer(userInput), and on the last question the
\* start of completeAssessment up to its first await
HandleAnswer ==
  /\ QuestionShown
  /\ NextEnabled
  /\ LET answer           == ip_userInput
         currentQuestion  == ip_currentQuestion[1]
         updatedQuestion  == [currentQuestion EXCEPT !.userResponse = answer]
         updatedQuestions ==
           [i \in DOMAIN ip_questions |->
              IF ip_questions[i].id = currentQuestion.id
              THEN updatedQuestion ELSE ip_questions[i]]
         aboutFormat == includes(currentQuestion.text, <<"f","o","r","m","a","t","o"," ","v","o","c","ê"," ","p","r","e","f","e","r","e">>)
         aboutLevel  == includes(currentQuestion.text, <<"n","í","v","e","l"," ","d","e"," ","c","o","n","h","e","c","i","m","e","n","t","o"," ","e","m">>)
         nextQuestionIndex == findIndex(ip_questions, currentQuestion.id) + 1
         openEndedQuestions ==
           SelectSeq(updatedQuestions,
                     LAMBDA q : q.type = "open-ended" /\ Truthy(q.userResponse))
     IN  /\ ip_questions' = updatedQuestions
         /\ IF aboutFormat
            THEN /\ ip_preferredFormat' = answer
                 /\ ip_formatPreferences' =
                      [ip_formatPreferences EXCEPT ![answer] = @ + 1]
            ELSE UNCHANGED <<ip_preferredFormat, ip_formatPreferences>>
         /\ IF aboutLevel
            THEN /\ ip_knowledgeGaps' =
                      IF answer = <<"i","n","i","c","i","a","n","t","e">>
                      THEN Append(ip_knowledgeGaps, TopicAsked(currentQuestion.text))
                      ELSE ip_knowledgeGaps
                 /\ ip_userLevel' = updateUserLevel(updatedQuestions, ip_userLevel)
            ELSE UNCHANGED <<ip_knowledgeGaps, ip_userLevel>>
         /\ IF nextQuestionIndex <= Len(ip_questions)
            THEN /\ ip_currentQuestion' = << ip_questions[nextQuestionIndex] >>
                 /\ ip_userInput' = <<>>
                 /\ UNCHANGED <<ip_isLoading, ip_completing>>
            ELSE \* completeAssessment(updatedQuestions), closed over this render
                 /\ ip_isLoading' = TRUE
                 /\ ip_completing' =
                      << [openEndedQuestions |-> openEndedQuestions,
                          awaited |-> 1,
                          userId |-> ip_userId,
                          knowledgeGaps |-> ip_knowledgeGaps,
                          preferredFormat |-> ip_preferredFormat,
                          userLevel |-> ip_userLevel] >>
                 /\ UNCHANGED <<ip_currentQuestion, ip_userInput>>
  /\ UNCHANGED <<ip_userId, ip_currentStep, ip_assessmentComplete, ip_error>>
  /\ UNCHANGED learningPageVars
  /\ UNCHANGED notAssessVars

\* the awaited analyzeQuery resolves: the rest of the loop body, then the next
\* call or, after the last question, the completion and the finally block
AnalysisResolves ==
  /\ ip_completing # <<>>
  /\ \E response \in AnalysisTexts :
       LET frame    == ip_completing[1]
           question == frame.openEndedQuestions[frame.awaited]
           topic    == TopicEvaluated(question.text)
           result   == [userId |-> frame.userId,
                        knowledgeGaps |-> frame.knowledgeGaps,
                        preferredFormat |-> frame.preferredFormat,
                        level |-> frame.userLevel]
       IN  /\ ip_knowledgeGaps' =
                IF SignalsGap(response) /\ topic \notin Range(frame.knowledgeGaps)
                THEN Append(ip_knowledgeGaps, topic)
                ELSE ip_knowledgeGaps
           /\ IF frame.awaited < Len(frame.openEndedQuestions)
              THEN /\ ip_completing' = << [frame EXCEPT !.awaited = @ + 1] >>
                   /\ UNCHANGED <<ip_assessmentComplete, ip_isLoading>>
                   /\ UNCHANGED learningPageVars
              ELSE /\ ip_assessmentComplete' = TRUE
                   /\ lp_completions' = Append(lp_completions, result)
                   /\ lp_assessmentResult' = handleAssessmentComplete(result).assessmentResult
                   /\ lp_assessmentComplete' = handleAssessmentComplete(result).assessmentComplete
                   /\ ip_isLoading' = FALSE
                   /\ ip_completing' = <<>>
  /\ UNCHANGED <<ip_userId, ip_currentStep, ip_preferredFormat, ip_userLevel,
                 ip_currentQuestion, ip_questions, ip_userInput,
                 ip_formatPreferences, ip_error>>
  /\ UNCHANGED notAssessVars

\* a rejection after which the loop goes on to the next question
AnalysisRejects_Continues ==
  /\ ip_completing # <<>>
  /\ ip_error' = <<"O","c","o","r","r","e","u"," ","u","m"," ","e","r","r","o"," ","a","o"," ","p","r","o","c","e","s","s","a","r"," ","s","u","a","s"," ","r","e","s","p","o","s","t","a","s","."," ","T","e","n","t","e"," ","n","o","v","a","m","e","n","t","e",".">>
  /\ LET frame == ip_completing[1]
     IN  IF frame.awaited < Len(frame.openEndedQuestions)
         THEN /\ ip_completing' = << [frame EXCEPT !.awaited = @ + 1] >>
              /\ UNCHANGED ip_isLoading
         ELSE /\ ip_completing' = <<>>
              /\ ip_isLoading' = FALSE
  /\ UNCHANGED <<ip_userId, ip_currentStep, ip_knowledgeGaps, ip_preferredFormat,
                 ip_userLevel, ip_currentQuestion, ip_questions, ip_userInput,
                 ip_formatPreferences, ip_assessmentComplete>>
  /\ UNCHANGED learningPageVars
  /\ UNCHANGED notAssessVars

\* the awaited analyzeQuery rejects: the catch and finally blocks
AnalysisRejects ==
  /\ ip_completing # <<>>
  /\ ip_error' = <<"O","c","o","r","r","e","u"," ","u","m"," ","e","r","r","o"," ","a","o"," ","p","r","o","c","e","s","s","a","r"," ","s","u","a","s"," ","r","e","s","p","o","s","t","a","s","."," ","T","e","n","t","e"," ","n","o","v","a","m","e","n","t","e",".">>
  /\ ip_isLoading' = FALSE
  /\ ip_completing' = <<>>
  /\ UNCHANGED <<ip_userId, ip_currentStep, ip_knowledgeGaps, ip_preferredFormat,
                 ip_userLevel, ip_currentQuestion, ip_questions, ip_userInput,
                 ip_formatPreferences, ip_assessmentComplete>>
  /\ UNCHANGED learningPageVars
  /\ UNCHANGED notAssessVars

(***************************************************************************)
(* JavaScript values that travel as JSON: the body of a backend reply, the *)
(* content of an exercise file.  A value is a record of four fields:       *)
(*   type     "string", "number", "boolean", "null", "array", "object";    *)
(*            "undefined" for an absent property, "SyntaxError" for what   *)
(*            JSON.parse throws                                            *)
(*   text     the characters of a string, the digits of a number,          *)
(*            true / false of a boolean                                    *)
(*   items    the elements of an array                                     *)
(*   entries  the properties of an object, in insertion order, each with   *)
(*            its key and its value                                        *)
(***************************************************************************)

JsString(text) == [type |-> "string", text |-> text, items |-> <<>>, entries |-> <<>>]

JsNumber(digits) == [type |-> "number", text |-> digits, items |-> <<>>, entries |-> <<>>]

JsNull == [type |-> "null", text |-> <<>>, items |-> <<>>, entries |-> <<>>]

JsUndefined == [type |-> "undefined", text |-> <<>>, items |-> <<>>, entries |-> <<>>]

JsArray(items) == [type |-> "array", text |-> <<>>, items |-> items, entries |-> <<>>]

JsObject(entries) == [type |-> "object", text |-> <<>>, items |-> <<>>, entries |-> entries]

SyntaxError == [type |-> "SyntaxError", text |-> <<>>, items |-> <<>>, entries |-> <<>>]

Property(key, value) == [key |-> key, value |-> value]

\* value.key : the last property of that name, JsUndefined without one or
\* when value is not an object
Get(value, key) ==
  IF value.type = "object" /\ \E i \in DOMAIN value.entries : value.entries[i].key = key
  THEN value.entries[Max({i \in DOMAIN value.entries : value.entries[i].key = key})].value
  ELSE JsUndefined

\* typeof value
typeof(value) ==
  IF value.type \in {"null", "array", "object"} THEN "object" ELSE value.type

\* a sequence of strings joined with a separator
RECURSIVE Join(_, _)
Join(pieces, separator) ==
  IF pieces = <<>> THEN <<>>
  ELSE IF Len(pieces) = 1 THEN pieces[1]
  ELSE pieces[1] \o separator \o Join(Tail(pieces), separator)

\* JSON.stringify of one character inside a string
EscapeChar(c) ==
  IF c = "\"" THEN <<"\\", "\"">>
  ELSE IF c = "\\" THEN <<"\\", "\\">>
  ELSE IF c = "\n" THEN <<"\\", "n">>
  ELSE IF c = "\r" THEN <<"\\", "r">>
  ELSE IF c = "\t" THEN <<"\\", "t">>
  ELSE <<c>>

Quote(text) ==
  <<"\"">> \o Join([i \in 1..Len(text) |-> EscapeChar(text[i])], <<>>) \o <<"\"">>

\* JSON.stringify(value), without indentation
RECURSIVE JSONstringify(_)
JSONstringify(value) ==
  IF value.type = "string" THEN Quote(value.text)
  ELSE IF value.type \in {"number", "boolean"} THEN value.text
  ELSE IF value.type = "null" THEN <<"n","u","l","l">>
  ELSE IF value.type = "array"
       THEN <<"[">>
              \o Join([i \in 1..Len(value.items) |-> JSONstringify(value.items[i])], <<",">>)
              \o <<"]">>
  ELSE <<"{">>
         \o Join([i \in 1..Len(value.entries) |->
                    Quote(value.entries[i].key) \o <<":">>
                      \o JSONstringify(value.entries[i].value)], <<",">>)
         \o <<"}">>

(***************************************************************************)
(* services/api.ts: processApiResponse and what analyzeQuery hands back    *)
(***************************************************************************)

\* the text of a string value, Undefined for an absent property.  The
\* replies of the model carry strings or nothing in the properties read here.
TextOf(value) == IF value.type = "string" THEN value.text ELSE Undefined

\* the answer of the backend to a query
AnswerTo(query) == <<"R","e","s","p","o","s","t","a",":"," ">> \o query

\* a well-formed reply to a query, with a query_id or without one
Reply(query, query_id) ==
  JsObject(<< Property(<<"r","e","s","p","o","n","s","e">>, JsString(AnswerTo(query))),
              Property(<<"u","s","e","r","_","i","d">>, JsString(<<"u","1">>)) >>
           \o (IF query_id = Undefined THEN <<>>
               ELSE << Property(<<"q","u","e","r","y","_","i","d">>, JsString(query_id)) >>))

\* replies that are not well formed: an empty response, no response property
EmptyResponseReply ==
  JsObject(<< Property(<<"r","e","s","p","o","n","s","e">>, JsString(<<>>)), Property(<<"u","s","e","r","_","i","d">>, JsString(<<"u","1">>)) >>)

MissingResponseReply == JsObject(<< Property(<<"u","s","e","r","_","i","d">>, JsString(<<"u","1">>)) >>)

\* what JSON.parse can be given in the model and parse: the documents whose
\* JSON text occurs as a string body.  Every other text of the model is no
\* JSON text.
ParsableReplies(query) == { Reply(query, Undefined), MissingResponseReply }

\* JSON.parse(text) for a text of a reply to query
ParseReply(text, query) ==
  IF \E document \in ParsableReplies(query) : JSONstringify(document) = text
  THEN CHOOSE document \in ParsableReplies(query) : JSONstringify(document) = text
  ELSE SyntaxError

\* a reply object seen as AnalyzeResponse, file_path taken from the marker
AsAnalyzeResponse(data) ==
  [response |-> Get(data, <<"r","e","s","p","o","n","s","e">>).text,
   user_id |-> TextOf(Get(data, <<"u","s","e","r","_","i","d">>)),
   query_id |-> TextOf(Get(data, <<"q","u","e","r","y","_","i","d">>)),
   file_path |-> IF MatchComment(Get(data, <<"r","e","s","p","o","n","s","e">>).text) # Null
                 THEN MatchComment(Get(data, <<"r","e","s","p","o","n","s","e">>).text)
                 ELSE TextOf(Get(data, <<"f","i","l","e","_","p","a","t","h">>))]

\* the object literals processApiResponse builds
BuiltResponse(response, file_path) ==
  [response |-> response, user_id |-> <<"u","n","k","n","o","w","n">>, query_id |-> Undefined,
   file_path |-> file_path]

\* processApiResponse(data), data being the body of a reply to query
processApiResponse(data, query) ==
  IF Get(data, <<"r","e","s","p","o","n","s","e">>).type = "string" THEN AsAnalyzeResponse(data)
  ELSE IF typeof(data) = "string"
  THEN IF ParseReply(data.text, query) = SyntaxError
       THEN BuiltResponse(data.text,
                          IF MatchComment(data.text) # Null
                          THEN MatchComment(data.text) ELSE Undefined)
       ELSE IF Get(ParseReply(data.text, query), <<"r","e","s","p","o","n","s","e">>).type = "string"
       THEN AsAnalyzeResponse(ParseReply(data.text, query))
       ELSE BuiltResponse(IF typeof(ParseReply(data.text, query)) = "string"
                          THEN ParseReply(data.text, query).text
                          ELSE JSONstringify(ParseReply(data.text, query)),
                          Undefined)
  ELSE BuiltResponse(IF typeof(data) = "object" THEN JSONstringify(data) ELSE data.text,
                     Undefined)

\* the bodies the backend may send in reply to the call-th query: objects,
\* and strings that are plain text or the JSON text of an object
ReplyBodies(query, call) ==
  { Reply(query, <<"q">> \o <<Digit(call)>>),
    EmptyResponseReply,
    MissingResponseReply,
    JsString(AnswerTo(query)),
    JsString(JSONstringify(Reply(query, Undefined))),
    JsString(JSONstringify(MissingResponseReply)) }

\* how a call fails: the reply with an error status, with or without a
\* detail, or no reply at all
Failures ==
  { [replied |-> TRUE, detail |-> <<"S","e","r","v","i","ç","o"," ","i","n","d","i","s","p","o","n","í","v","e","l">>, message |-> <<"R","e","q","u","e","s","t"," ","f","a","i","l","e","d"," ","w","i","t","h"," ","s","t","a","t","u","s"," ","c","o","d","e"," ","5","0","3">>],
    [replied |-> TRUE, detail |-> Undefined, message |-> <<"R","e","q","u","e","s","t"," ","f","a","i","l","e","d"," ","w","i","t","h"," ","s","t","a","t","u","s"," ","c","o","d","e"," ","5","0","0">>],
    [replied |-> FALSE, detail |-> Undefined, message |-> <<"N","e","t","w","o","r","k"," ","E","r","r","o","r">>] }

\* analyzeQuery, catch block: the message of the error it throws
analyzeQueryError(failure) ==
  IF failure.replied
  THEN IF Truthy(failure.detail) THEN failure.detail ELSE <<"E","r","r","o"," ","a","o"," ","a","n","a","l","i","s","a","r"," ","c","o","n","s","u","l","t","a">>
  ELSE failure.message

(***************************************************************************)
(* app/page.tsx (Home) with its SearchForm in dialog mode                  *)
(*   sf_query           the query state of SearchForm                      *)
(*   hm_...             the useState cells of Home                         *)
(*   hm_inFlight        the calls of handleSearch waiting for analyzeQuery *)
(*   hm_calls           how many times handleSearch has been called        *)
(*   hm_received        the body of the reply that resolved last           *)
(*   hm_resolved        how many calls have resolved                       *)
(***************************************************************************)

\* how many times handleSearch is called in one behaviour
MaxSearches == 2

InvalidResponseMessage ==
  <<"A"," ","A","P","I"," ","r","e","t","o","r","n","o","u"," ","u","m","a"," ","r","e","s","p","o","s","t","a"," ","v","a","z","i","a"," ","o","u"," ","i","n","v","á","l","i","d","a","."," ","P","o","r"," ","f","a","v","o","r",","," ","t","e","n","t","e"," ","n","o","v","a","m","e","n","t","e",".">>

FailurePrefix == <<"O","c","o","r","r","e","u"," ","u","m"," ","e","r","r","o"," ","a","o"," ","p","r","o","c","e","s","s","a","r"," ","s","u","a"," ","c","o","n","s","u","l","t","a",":"," ">>

\* the queries of the first two of the four sample buttons, which differ
\* in nothing but the literals they pass to handleSearch
SampleQueries ==
  { <<"O"," ","q","u","e"," ","é"," ","H","T","M","L"," ","e"," ","p","a","r","a"," ","q","u","e"," ","s","e","r","v","e","?">>,
    <<"E","x","p","l","i","q","u","e"," ","o","s"," ","c","o","n","c","e","i","t","o","s"," ","d","e"," ","C","S","S"," ","G","r","i","d"," ","e"," ","F","l","e","x","b","o","x">> }

\* what the user writes into the message field
QueryInputs == { <<" ">>, <<"O"," ","q","u","e"," ","é"," ","C","S","S","?">> }

\* Date.now().toString() at the moments a reply is stored
Clock == { <<"1","7","1","8","0","0","0","0","0","0","0","0","0">>, <<"1","7","1","8","0","0","0","0","0","0","0","0","1">> }

HomeInit ==
  /\ sf_query = <<>>
  /\ hm_isLoading = FALSE
  /\ hm_responses = <<>>
  /\ hm_queries = <<>>
  /\ hm_error = Null
  /\ hm_userId = Null
  /\ hm_feedbackStatus = <<>>
  /\ hm_inFlight = {}
  /\ hm_calls = 0
  /\ hm_received = JsUndefined
  /\ hm_resolved = 0

HomeIdle == HomeInit

\* handleSearch up to its await: the new state of Home
handleSearch(query) ==
  /\ hm_calls < MaxSearches
  /\ hm_isLoading' = TRUE
  /\ hm_error' = Null
  /\ hm_queries' = Append(hm_queries, query)
  /\ hm_calls' = hm_calls + 1
  /\ hm_inFlight' = hm_inFlight \cup
       { [call |-> hm_calls + 1,
          query |-> query,
          user_id |-> IF Truthy(hm_userId) THEN hm_userId ELSE Undefined] }
  /\ UNCHANGED <<hm_responses, hm_userId, hm_feedbackStatus, hm_received, hm_resolved>>

\* textarea onChange of SearchForm
ChangeQuery ==
  /\ \E value \in QueryInputs : sf_query' = value
  /\ UNCHANGED homePageVars
  /\ UNCHANGED notHomeVars

\* the submit event of SearchForm, whose button is disabled while isLoading:
\* handleSubmit, and through onSubmit handleSearch
SubmitForm ==
  /\ ~hm_isLoading
  /\ IF trim(sf_query) = <<>>
     THEN UNCHANGED <<sf_query, homePageVars>>
     ELSE /\ handleSearch(sf_query)
          /\ sf_query' = <<>>
  /\ UNCHANGED notHomeVars

\* click on one of the sample buttons, shown while there is no query
ClickSample ==
  /\ Len(hm_queries) = 0
  /\ \E query \in SampleQueries : handleSearch(query)
  /\ UNCHANGED sf_query
  /\ UNCHANGED notHomeVars

\* the feedbackStatus map with one more key set
WithStatus(feedbackStatus, key, status) ==
  IF \E i \in DOMAIN feedbackStatus : feedbackStatus[i].key = key
  THEN [i \in DOMAIN feedbackStatus |->
          IF feedbackStatus[i].key = key
          THEN [key |-> key, status |-> status] ELSE feedbackStatus[i]]
  ELSE Append(feedbackStatus, [key |-> key, status |-> status])

\* the keys handleSearch may file a stored reply under
StatusKeys(result) == IF Truthy(result.query_id) THEN {result.query_id} ELSE Clock

\* analyzeQuery resolves for one call: the rest of handleSearch
AnalyzeResolves ==
  /\ \E frame \in hm_inFlight :
       \E data \in ReplyBodies(frame.query, frame.call) :
         \E result \in {processApiResponse(data, frame.query)} :
           /\ hm_inFlight' = hm_inFlight \ {frame}
           /\ hm_received' = data
           /\ hm_resolved' = hm_resolved + 1
           /\ IF ~Truthy(result.response)
              THEN /\ hm_error' = InvalidResponseMessage
                   /\ UNCHANGED <<hm_responses, hm_feedbackStatus, hm_userId>>
              ELSE /\ hm_responses' = Append(hm_responses, result)
                   /\ \E key \in StatusKeys(result) :
                        hm_feedbackStatus' = WithStatus(hm_feedbackStatus, key, "pending")
                   /\ hm_userId' = IF Truthy(result.user_id) THEN result.user_id
                                   ELSE hm_userId
                   /\ UNCHANGED hm_error
           /\ hm_isLoading' = FALSE
  /\ UNCHANGED <<sf_query, hm_queries, hm_calls>>
  /\ UNCHANGED notHomeVars

\* analyzeQuery rejects for one call: the catch and finally blocks
AnalyzeRejects ==
  /\ \E frame \in hm_inFlight, failure \in Failures :
       /\ hm_inFlight' = hm_inFlight \ {frame}
       /\ hm_error' = FailurePrefix \o analyzeQueryError(failure)
  /\ hm_isLoading' = FALSE
  /\ UNCHANGED <<sf_query, hm_responses, hm_queries, hm_userId, hm_feedbackStatus,
                 hm_calls, hm_received, hm_resolved>>
  /\ UNCHANGED notHomeVars

\* click on "Tentar novamente" under the error
DismissError ==
  /\ Len(hm_queries) # 0
  /\ Truthy(hm_error)
  /\ hm_error' = Null
  /\ UNCHANGED <<sf_query, hm_isLoading, hm_responses, hm_queries, hm_userId,
                 hm_feedbackStatus, hm_inFlight, hm_calls, hm_received, hm_resolved>>
  /\ UNCHANGED notHomeVars

\* click on "Nova conversa"
clearChat ==
  /\ hm_responses' = <<>>
  /\ hm_queries' = <<>>
  /\ hm_feedbackStatus' = <<>>
  /\ UNCHANGED <<sf_query, hm_isLoading, hm_error, hm_userId, hm_inFlight, hm_calls,
                 hm_received, hm_resolved>>
  /\ UNCHANGED notHomeVars

(***************************************************************************)
(* components/content/ExerciseContent.tsx                                  *)
(***************************************************************************)

\* text.split('\n')
RECURSIVE SplitLines(_)
SplitLines(text) ==
  IF indexOf(text, <<"\n">>, 1) = 0 THEN << text >>
  ELSE << SubSeq(text, 1, indexOf(text, <<"\n">>, 1) - 1) >>
         \o SplitLines(SubSeq(text, indexOf(text, <<"\n">>, 1) + 1, Len(text)))

\* the last position of the run .+ that starts at p (p - 1 when empty)
DotRunEnd(line, p) ==
  Min({k \in p..(Len(line) + 1) : k = Len(line) + 1 \/ line[k] \in LineTerminators}) - 1

\* how many digits the line starts with
LeadingDigits(line) ==
  Min({k \in 1..(Len(line) + 1) : k = Len(line) + 1 \/ line[k] \notin Digits}) - 1

\* line.match(/^(\d+)[.)](.+)/) : group 2, Null without a match
QuestionMatch(line) ==
  IF /\ LeadingDigits(line) >= 1
     /\ Len(line) >= LeadingDigits(line) + 2
     /\ line[LeadingDigits(line) + 1] \in {".", ")"}
     /\ DotRunEnd(line, LeadingDigits(line) + 2) >= LeadingDigits(line) + 2
  THEN SubSeq(line, LeadingDigits(line) + 2, DotRunEnd(line, LeadingDigits(line) + 2))
  ELSE Null

\* line.match(/^[a-zA-Z][).] (.+)/) : group 1, Null without a match
OptionMatch(line) ==
  IF /\ Len(line) >= 4
     /\ IsAsciiLetter(line[1])
     /\ line[2] \in {")", "."}
     /\ line[3] = " "
     /\ DotRunEnd(line, 4) >= 4
  THEN SubSeq(line, 4, DotRunEnd(line, 4))
  ELSE Null

\* line.match(/^(L1|L2|...):\s*(.+)/i) : group 2, Null without a match.
\* \s* takes all the white space it can and gives back what .+ needs.
LabelMatch(line, labels) ==
  IF \E l \in labels : MatchesAt(line, l \o <<":">>, 1)
  THEN LET label  == CHOOSE l \in labels : MatchesAt(line, l \o <<":">>, 1)
           starts == {k \in (Len(label) + 2)..SkipWhiteSpace(line, Len(label) + 2) :
                        k <= Len(line) /\ line[k] \notin LineTerminators}
       IN  IF starts = {} THEN Null
           ELSE SubSeq(line, Max(starts), DotRunEnd(line, Max(starts)))
  ELSE Null

AnswerMatch(line) == LabelMatch(line, {<<"r","e","s","p","o","s","t","a">>, <<"a","n","s","w","e","r">>, <<"g","a","b","a","r","i","t","o">>})

ExplanationMatch(line) == LabelMatch(line, {<<"e","x","p","l","i","c","a","ç","ã","o">>, <<"e","x","p","l","a","n","a","t","i","o","n">>})

\* object[key] = value : the property replaced in place, or added at the end
SetProperty(object, key, value) ==
  IF \E i \in DOMAIN object.entries : object.entries[i].key = key
  THEN JsObject([i \in DOMAIN object.entries |->
                   IF object.entries[i].key = key
                   THEN Property(key, value) ELSE object.entries[i]])
  ELSE JsObject(Append(object.entries, Property(key, value)))

\* an array of strings as a value
StringArray(texts) == JsArray([i \in DOMAIN texts |-> JsString(texts[i])])

\* Flush that saves the exercise without the options collected for it
Flush_NoOptions(st) ==
  IF st.currentExercise # <<>>
       /\ Truthy(TextOf(Get(st.currentExercise[1], <<"q","u","e","s","t","i","o","n">>)))
  THEN [st EXCEPT
          !.exercises = Append(@, st.currentExercise[1]),
          !.collectingOptions = FALSE,
          !.currentOptions = IF st.collectingOptions THEN <<>> ELSE @]
  ELSE st

\* parseTextExercises: the exercise in progress is saved, with its options
Flush(st) ==
  IF st.currentExercise # <<>>
       /\ Truthy(TextOf(Get(st.currentExercise[1], <<"q","u","e","s","t","i","o","n">>)))
  THEN [st EXCEPT
          !.exercises =
             Append(@, IF st.collectingOptions
                       THEN SetProperty(st.currentExercise[1], <<"o","p","t","i","o","n","s">>,
                                        StringArray(st.currentOptions))
                       ELSE st.currentExercise[1]),
          !.collectingOptions = FALSE,
          !.currentOptions = IF st.collectingOptions THEN <<>> ELSE @]
  ELSE st

\* the body of the loop appending a free line to the question even after
\* options have been read
ParseLine_AppendAlways(st, rawLine) ==
  LET line == trim(rawLine)
  IN  IF ~Truthy(line) THEN st
      ELSE IF QuestionMatch(line) # Null
      THEN [Flush(st) EXCEPT
              !.currentExercise =
                 << JsObject(<< Property(<<"q","u","e","s","t","i","o","n">>, JsString(trim(QuestionMatch(line)))) >>) >>]
      ELSE IF st.currentExercise = <<>> THEN st
      ELSE IF OptionMatch(line) # Null
      THEN [st EXCEPT
              !.collectingOptions = TRUE,
              !.currentOptions =
                 Append(IF st.collectingOptions THEN @ ELSE <<>>, trim(OptionMatch(line)))]
      ELSE IF AnswerMatch(line) # Null
      THEN [st EXCEPT
              !.currentExercise =
                 << SetProperty(@[1], <<"a","n","s","w","e","r">>, JsString(trim(AnswerMatch(line)))) >>]
      ELSE IF ExplanationMatch(line) # Null
      THEN [st EXCEPT
              !.currentExercise =
                 << SetProperty(@[1], <<"e","x","p","l","a","n","a","t","i","o","n">>, JsString(trim(ExplanationMatch(line)))) >>]
      ELSE [st EXCEPT
              !.currentExercise =
                 << SetProperty(@[1], <<"q","u","e","s","t","i","o","n">>,
                                JsString(Get(@[1], <<"q","u","e","s","t","i","o","n">>).text \o <<" ">> \o line)) >>]

\* parseTextExercises: the body of the loop for one line
ParseLine(st, rawLine) ==
  LET line == trim(rawLine)
  IN  IF ~Truthy(line) THEN st
      ELSE IF QuestionMatch(line) # Null
      THEN [Flush(st) EXCEPT
              !.currentExercise =
                 << JsObject(<< Property(<<"q","u","e","s","t","i","o","n">>, JsString(trim(QuestionMatch(line)))) >>) >>]
      ELSE IF st.currentExercise = <<>> THEN st
      ELSE IF OptionMatch(line) # Null
      THEN [st EXCEPT
              !.collectingOptions = TRUE,
              !.currentOptions =
                 Append(IF st.collectingOptions THEN @ ELSE <<>>, trim(OptionMatch(line)))]
      ELSE IF AnswerMatch(line) # Null
      THEN [st EXCEPT
              !.currentExercise =
                 << SetProperty(@[1], <<"a","n","s","w","e","r">>, JsString(trim(AnswerMatch(line)))) >>]
      ELSE IF ExplanationMatch(line) # Null
      THEN [st EXCEPT
              !.currentExercise =
                 << SetProperty(@[1], <<"e","x","p","l","a","n","a","t","i","o","n">>, JsString(trim(ExplanationMatch(line)))) >>]
      ELSE IF ~st.collectingOptions
      THEN [st EXCEPT
              !.currentExercise =
                 << SetProperty(@[1], <<"q","u","e","s","t","i","o","n">>,
                                JsString(Get(@[1], <<"q","u","e","s","t","i","o","n">>).text \o <<" ">> \o line)) >>]
      ELSE st

RECURSIVE ParseLines(_, _)
ParseLines(st, lines) ==
  IF lines = <<>> THEN st
  ELSE ParseLines(ParseLine(st, Head(lines)), Tail(lines))

\* parseTextExercises(text)
parseTextExercises(text) ==
  Flush(ParseLines([exercises |-> <<>>, currentExercise |-> <<>>,
                    collectingOptions |-> FALSE, currentOptions |-> <<>>],
                   SplitLines(text))).exercises

(***************************************************************************)
(* One ExerciseContent component.                                          *)
(*   ex_filePath         the filePath prop                                 *)
(*   ex_fetching         whether fetchExercises is waiting for its fetch   *)
(*   ex_content          the text fetched, Undefined before and without    *)
(*   ex_exercises ...    the useState cells; ex_selectedAnswers maps the   *)
(*                       position of an exercise, counted from 1, to the   *)
(*                       option chosen                                     *)
(***************************************************************************)

\* an exercise as a JSON file holds it
Exercise(question, options, answer) ==
  JsObject(<< Property(<<"q","u","e","s","t","i","o","n">>, JsString(question)),
              Property(<<"o","p","t","i","o","n","s">>, StringArray(options)),
              Property(<<"a","n","s","w","e","r">>, JsString(answer)) >>)

SampleExercise == Exercise(<<"O"," ","q","u","e"," ","é"," ","H","T","M","L","?">>, << <<"U","m","a"," ","l","i","n","g","u","a","g","e","m">>, <<"U","m"," ","b","a","n","c","o">> >>, <<"U","m","a"," ","l","i","n","g","u","a","g","e","m">>)

OtherExercise == Exercise(<<"O"," ","q","u","e"," ","é"," ","C","S","S","?">>, << <<"E","s","t","i","l","o">>, <<"D","a","d","o","s">> >>, <<"F","o","l","h","a">>)

\* the JSON documents an exercise file may hold
ExerciseDocuments ==
  { JsArray(<< SampleExercise, OtherExercise >>),
    JsArray(<<>>),
    JsObject(<< Property(<<"e","x","e","r","c","i","s","e","s">>, JsArray(<< SampleExercise >>)) >>),
    JsObject(<< Property(<<"e","x","e","r","c","i","s","e","s">>, JsArray(<<>>)) >>),
    JsObject(<< Property(<<"t","i","t","u","l","o">>, JsString(<<"L","i","s","t","a"," ","1">>)), Property(<<"q","1">>, SampleExercise) >>),
    JsObject(<< Property(<<"t","i","t","u","l","o">>, JsString(<<"L","i","s","t","a"," ","1">>)) >>),
    JsObject(<< Property(<<"e","x","e","r","c","i","s","e","s">>, JsArray(<< Exercise(<<"Q","1">>, << <<"a">>, <<"b">> >>, <<"a">>) >>)) >>),
    JsObject(<< Property(<<"q","1">>, OtherExercise),
                Property(<<"e","x","e","r","c","i","s","e","s">>, JsArray(<< SampleExercise >>)) >>),
    JsObject(<< Property(<<"q","2">>, OtherExercise),
                Property(<<"t","i","t","u","l","o">>, JsString(<<"L","i","s","t","a"," ","1">>)),
                Property(<<"e","x","e","r","c","i","s","e","s">>, SampleExercise) >>),
    JsString(<<"1","."," ","O"," ","q","u","e"," ","é"," ","H","T","M","L","?">>),
    JsNull }

\* the longest text file written line by line
MaxLines == 3

\* the lines such a file is written from
FileLines ==
  { <<"1","."," ","W","h","a","t"," ","i","s"," ","X","?">>, <<" "," ","1","2",")"," "," ","E"," ","C","S","S","?"," ">>, <<"a",")"," ","f","o","o">>, <<"b",")"," ","b","a","r">>, <<"R","e","s","p","o","s","t","a",":"," ","a">>,
    <<"E","x","p","l","i","c","a","ç","ã","o",":"," ","p","o","r","q","u","e"," ","s","i","m">>, <<>>, <<"L","i","s","t","a"," ","d","e"," ","e","x","e","r","c","í","c","i","o","s">> }

\* the text files of up to MaxLines lines
WrittenTexts ==
  { Join(lines, <<"\n">>) : lines \in UNION {[1..n -> FileLines] : n \in 1..MaxLines} }

\* the texts an exercise file may hold that are no JSON text
ExerciseTexts ==
  WrittenTexts \cup
  { <<"1","."," ","W","h","a","t"," ","i","s"," ","X","?","\n","a",")"," ","f","o","o","\n","b",")"," ","b","a","r","\n","R","e","s","p","o","s","t","a",":"," ","a">>,
    <<"L","i","s","t","a"," ","d","e"," ","e","x","e","r","c","í","c","i","o","s","\n","\n","1",")"," ","O"," ","q","u","e"," ","é"," ","H","T","M","L","?","\n"," "," "," ","d","e"," ","m","a","r","c","a","ç","ã","o","\n","A","."," ","U","m","a"," ","l","i","n","g","u","a","g","e","m","\n","B","."," ","U","m"," ","b","a","n","c","o","\n","G","a","b","a","r","i","t","o",":"," ","U","m","a"," ","l","i","n","g","u","a","g","e","m","\n","E","x","p","l","i","c","a","ç","ã","o",":"," ","H","T","M","L"," ","m","a","r","c","a"," ","o"," ","t","e","x","t","o",".","\n","2","."," ","E"," ","C","S","S","?","\n","a",")"," ","E","s","t","i","l","o","\n","b",")"," ","D","a","d","o","s","\n","3",")"," ","E","x","p","l","i","q","u","e"," ","o"," ","D","O","M",".","\n","a","n","s","w","e","r",":"," "," ","U","m","a"," ","á","r","v","o","r","e","\n">>,
    <<"N","e","n","h","u","m"," ","e","x","e","r","c","í","c","i","o"," ","n","e","s","t","e"," ","a","r","q","u","i","v","o",".">>,
    <<>> }

\* what a fetch of the file may deliver
ExerciseContents == {JSONstringify(document) : document \in ExerciseDocuments} \cup ExerciseTexts

\* JSON.parse(content): the document whose JSON text content is
ParseExerciseFile(content) ==
  IF \E document \in ExerciseDocuments : JSONstringify(document) = content
  THEN CHOOSE document \in ExerciseDocuments : JSONstringify(document) = content
  ELSE SyntaxError

\* Object.entries(jsonData) filtered for the values that are objects with a
\* question property
ExtractedExercises(jsonData) ==
  LET found == SelectSeq(jsonData.entries,
                         LAMBDA e : e.value.type = "object"
                                      /\ Get(e.value, <<"q","u","e","s","t","i","o","n">>) # JsUndefined)
  IN  [i \in DOMAIN found |-> found[i].value]

\* the try block with the collection of question objects tried before the
\* exercises property
JsonStrategy_ExtractFirst(content) ==
  LET jsonData == ParseExerciseFile(content)
  IN  IF jsonData = SyntaxError THEN [thrown |-> TRUE, exercises |-> <<>>]
      ELSE IF jsonData.type = "array" THEN [thrown |-> FALSE, exercises |-> jsonData.items]
      ELSE IF jsonData.type = "null" THEN [thrown |-> TRUE, exercises |-> <<>>]
      ELSE IF ExtractedExercises(jsonData) # <<>>
      THEN [thrown |-> FALSE, exercises |-> ExtractedExercises(jsonData)]
      ELSE IF Get(jsonData, <<"e","x","e","r","c","i","s","e","s">>).type = "array"
      THEN [thrown |-> FALSE, exercises |-> Get(jsonData, <<"e","x","e","r","c","i","s","e","s">>).items]
      ELSE [thrown |-> TRUE, exercises |-> <<>>]

\* the try block of fetchExercises around JSON.parse: the list it gives to
\* setExercises, or thrown |-> TRUE when control passes to its catch block
JsonStrategy(content) ==
  LET jsonData == ParseExerciseFile(content)
  IN  IF jsonData = SyntaxError THEN [thrown |-> TRUE, exercises |-> <<>>]
      ELSE IF jsonData.type = "array" THEN [thrown |-> FALSE, exercises |-> jsonData.items]
      ELSE IF jsonData.type = "null" THEN [thrown |-> TRUE, exercises |-> <<>>]
      ELSE IF Get(jsonData, <<"e","x","e","r","c","i","s","e","s">>).type = "array"
      THEN [thrown |-> FALSE, exercises |-> Get(jsonData, <<"e","x","e","r","c","i","s","e","s">>).items]
      ELSE IF ExtractedExercises(jsonData) # <<>>
      THEN [thrown |-> FALSE, exercises |-> ExtractedExercises(jsonData)]
      ELSE [thrown |-> TRUE, exercises |-> <<>>]

\* fetchExercises from the content on: the exercises and the error it sets
LoadedFrom(content) ==
  IF ~JsonStrategy(content).thrown
  THEN [exercises |-> JsonStrategy(content).exercises, error |-> Null]
  ELSE IF Len(parseTextExercises(content)) > 0
  THEN [exercises |-> parseTextExercises(content), error |-> Null]
  ELSE [exercises |-> <<>>,
        error |-> <<"N","ã","o"," ","f","o","i"," ","p","o","s","s","í","v","e","l"," ","e","x","t","r","a","i","r"," ","e","x","e","r","c","í","c","i","o","s"," ","d","o"," ","c","o","n","t","e","ú","d","o">>]

ExerciseFilePaths == { <<"t","e","x","t","/","E","x","e","r","c","í","c","i","o","s",".","t","x","t">>, <<"E","x","e","r","c","í","c","i","o","s",".","j","s","o","n">> }

\* the status of a reply that is not ok
ErrorStatuses == { <<"4","0","4">>, <<"5","0","0">> }

\* err.message in the catch block of fetchExercises after such a reply, or
\* after fetch rejected
FetchFailureMessages ==
  {<<"E","r","r","o"," ","a","o"," ","c","a","r","r","e","g","a","r"," ","e","x","e","r","c","í","c","i","o","s"," ","(">> \o status \o <<")">> : status \in ErrorStatuses}
    \cup {<<"F","a","i","l","e","d"," ","t","o"," ","f","e","t","c","h">>}

ExerciseIdle ==
  /\ ex_filePath = <<>>
  /\ ex_fetching = FALSE
  /\ ex_url = <<>>
  /\ ex_content = Undefined
  /\ ex_exercises = <<>>
  /\ ex_loading = TRUE
  /\ ex_error = Null
  /\ ex_selectedAnswers = <<>>
  /\ ex_showResults = FALSE

\* the component mounted and its effect run up to the await of fetch
ExerciseInit ==
  /\ ex_filePath \in ExerciseFilePaths
  /\ ex_fetching = TRUE
  /\ ex_url = validateMediaUrl(ex_filePath)
  /\ ex_content = Undefined
  /\ ex_exercises = <<>>
  /\ ex_loading = TRUE
  /\ ex_error = Null
  /\ ex_selectedAnswers = <<>>
  /\ ex_showResults = FALSE

\* fetch resolves with an ok reply and its text: the rest of fetchExercises
FetchResolves ==
  /\ ex_fetching
  /\ \E content \in ExerciseContents :
       \E loaded \in {LoadedFrom(content)} :
         /\ ex_content' = content
         /\ ex_exercises' = loaded.exercises
         /\ ex_error' = loaded.error
  /\ ex_loading' = FALSE
  /\ ex_fetching' = FALSE
  /\ UNCHANGED <<ex_filePath, ex_url, ex_selectedAnswers, ex_showResults>>
  /\ UNCHANGED notExerciseVars

\* fetch resolves with a reply that is not ok, or rejects
FetchFails ==
  /\ ex_fetching
  /\ \E message \in FetchFailureMessages : ex_error' = message
  /\ ex_exercises' = <<>>
  /\ ex_loading' = FALSE
  /\ ex_fetching' = FALSE
  /\ UNCHANGED <<ex_filePath, ex_url, ex_content, ex_selectedAnswers, ex_showResults>>
  /\ UNCHANGED notExerciseVars

\* the exercise list is rendered
ExercisesShown == ~ex_loading /\ ~Truthy(ex_error) /\ Len(ex_exercises) # 0

\* onChange of the radio input of an option
handleAnswerSelect ==
  /\ ExercisesShown
  /\ ~ex_showResults
  /\ \E exerciseIndex \in DOMAIN ex_exercises :
       /\ Get(ex_exercises[exerciseIndex], <<"o","p","t","i","o","n","s">>).type = "array"
       /\ \E answer \in Range(Get(ex_exercises[exerciseIndex], <<"o","p","t","i","o","n","s">>).items) :
            ex_selectedAnswers' =
              [i \in DOMAIN ex_selectedAnswers \cup {exerciseIndex} |->
                 IF i = exerciseIndex THEN <<answer>> ELSE ex_selectedAnswers[i]]
  /\ UNCHANGED <<ex_filePath, ex_fetching, ex_url, ex_content, ex_exercises, ex_loading,
                 ex_error, ex_showResults>>
  /\ UNCHANGED notExerciseVars

\* onClick of 'Verificar respostas', disabled while nothing is selected
handleSubmit ==
  /\ ExercisesShown
  /\ ~ex_showResults
  /\ DOMAIN ex_selectedAnswers # {}
  /\ ex_showResults' = TRUE
  /\ UNCHANGED <<ex_filePath, ex_fetching, ex_url, ex_content, ex_exercises, ex_loading,
                 ex_error, ex_selectedAnswers>>
  /\ UNCHANGED notExerciseVars

\* onClick of 'Tentar novamente', shown in place of 'Verificar respostas'
handleReset ==
  /\ ExercisesShown
  /\ ex_showResults
  /\ ex_selectedAnswers' = <<>>
  /\ ex_showResults' = FALSE
  /\ UNCHANGED <<ex_filePath, ex_fetching, ex_url, ex_content, ex_exercises, ex_loading,
                 ex_error>>
  /\ UNCHANGED notExerciseVars

\* the mark beside every option that equals the stated answer, selected or not
OptionMark_AnswerOnly(exerciseIndex, option) ==
  IF ex_showResults
  THEN IF Get(ex_exercises[exerciseIndex], <<"a","n","s","w","e","r">>) = option THEN "correct" ELSE "none"
  ELSE "none"

\* the mark rendered beside an option of the list: the check mark, the
\* cross, or none
OptionMark(exerciseIndex, option) ==
  IF /\ ex_showResults
     /\ exerciseIndex \in DOMAIN ex_selectedAnswers
     /\ ex_selectedAnswers[exerciseIndex] = << option >>
  THEN IF Get(ex_exercises[exerciseIndex], <<"a","n","s","w","e","r">>) = option THEN "correct" ELSE "incorrect"
  ELSE "none"
(***************************************************************************)
(* AdaptiveResponse.tsx: the feedback buttons of one response.             *)
(*   fb_data                   user_id and query_id of the data prop       *)
(*   fb_feedbackStatus         the feedbackStatus prop, set by the parent  *)
(*   fb_internalFeedbackSubmitted, fb_isSubmittingFeedback                 *)
(*                             the useState cells                          *)
(*   fb_pending                the call of handleFeedbackSubmit waiting    *)
(*                             for sendFeedback, with the feedbackStatus   *)
(*                             its closure holds                           *)
(*   fb_sent                   the bodies posted to /api/feedback so far   *)
(*   fb_logged                 the errors written with console.error       *)
(***************************************************************************)

\* the clicks on a feedback button followed
MaxFeedbackClicks == 3

\* feedbackStatus === 'submitted' || internalFeedbackSubmitted
feedbackSubmitted == fb_feedbackStatus = <<"s","u","b","m","i","t","t","e","d">> \/ fb_internalFeedbackSubmitted

\* the texts of the feedback area as rendered
FeedbackArea ==
  IF feedbackSubmitted THEN << <<"O","b","r","i","g","a","d","o"," ","p","e","l","o"," ","f","e","e","d","b","a","c","k">> >>
  ELSE << <<"Ú","t","i","l">>, <<"N","ã","o"," ","ú","t","i","l">> >>

\* what sendFeedback throws: the detail of an error reply, its default
\* message, the error of a request without reply
FeedbackFailures == { <<"F","e","e","d","b","a","c","k"," ","i","n","v","á","l","i","d","o">>, <<"E","r","r","o"," ","a","o"," ","e","n","v","i","a","r"," ","f","e","e","d","b","a","c","k">>, <<"N","e","t","w","o","r","k"," ","E","r","r","o","r">> }

FeedbackIdle ==
  /\ fb_data = [user_id |-> <<>>, query_id |-> Undefined]
  /\ fb_feedbackStatus = Undefined
  /\ fb_internalFeedbackSubmitted = FALSE
  /\ fb_isSubmittingFeedback = FALSE
  /\ fb_pending = <<>>
  /\ fb_sent = <<>>
  /\ fb_logged = <<>>

\* mounted by Home (no feedbackStatus yet) or by AdaptiveLearningContent
\* ('pending' once its content is fetched)
FeedbackInit ==
  /\ fb_data \in [user_id : {<<"u","1">>, <<"u","n","k","n","o","w","n">>}, query_id : {Undefined, <<"q","1">>}]
  /\ fb_feedbackStatus \in {Undefined, <<"p","e","n","d","i","n","g">>}
  /\ fb_internalFeedbackSubmitted = FALSE
  /\ fb_isSubmittingFeedback = FALSE
  /\ fb_pending = <<>>
  /\ fb_sent = <<>>
  /\ fb_logged = <<>>

\* onClick of 'Útil' / 'Não útil': handleFeedbackSubmit up to the await
ClickFeedback ==
  /\ ~feedbackSubmitted
  /\ ~fb_isSubmittingFeedback
  /\ Len(fb_sent) < MaxFeedbackClicks
  /\ \E feedback \in {"positive", "negative"} :
       /\ fb_pending' = << [feedback |-> feedback, feedbackStatus |-> fb_feedbackStatus] >>
       /\ fb_sent' = Append(fb_sent,
            [ user_id  |-> fb_data.user_id,
              query_id |-> IF Truthy(fb_data.query_id) THEN fb_data.query_id ELSE <<>>,
              feedback |-> IF feedback = "positive" THEN <<"p","o","s","i","t","i","v","o">> ELSE <<"n","e","g","a","t","i","v","o">> ])
  /\ fb_isSubmittingFeedback' = TRUE
  /\ UNCHANGED <<fb_data, fb_feedbackStatus, fb_internalFeedbackSubmitted, fb_logged>>
  /\ UNCHANGED notFeedbackVars

\* sendFeedback resolves: onFeedback, by which the parent sets the status
\* 'submitted', and the rest of handleFeedbackSubmit
SendFeedbackResolves ==
  /\ fb_pending # <<>>
  /\ fb_feedbackStatus' = <<"s","u","b","m","i","t","t","e","d">>
  /\ fb_internalFeedbackSubmitted' =
       IF fb_pending[1].feedbackStatus = Undefined THEN TRUE ELSE fb_internalFeedbackSubmitted
  /\ fb_isSubmittingFeedback' = FALSE
  /\ fb_pending' = <<>>
  /\ UNCHANGED <<fb_data, fb_sent, fb_logged>>
  /\ UNCHANGED notFeedbackVars

\* sendFeedback rejects: the catch and finally blocks of handleFeedbackSubmit
SendFeedbackRejects ==
  /\ fb_pending # <<>>
  /\ \E message \in FeedbackFailures : fb_logged' = Append(fb_logged, message)
  /\ fb_isSubmittingFeedback' = FALSE
  /\ fb_pending' = <<>>
  /\ UNCHANGED <<fb_data, fb_feedbackStatus, fb_internalFeedbackSubmitted, fb_sent>>
  /\ UNCHANGED notFeedbackVars

(***************************************************************************)
(* components/content/AdaptiveLearningContent.tsx                          *)
(*   al_knowledgeGaps     the knowledgeGaps prop                           *)
(*   al_currentGapIndex, al_isLoading, al_response, al_error,              *)
(*   al_feedbackStatus, al_exerciseMode                                    *)
(*                        the useState cells; al_response is <<>> for null *)
(*                        or holds the response                            *)
(*   al_inFlight          the calls of fetchAdaptiveContent waiting for    *)
(*                        the backend, each with the gap index and the     *)
(*                        mode its closure holds                           *)
(*   al_fetches           how many times fetchAdaptiveContent was called   *)
(*   al_shown             the call whose result al_response is             *)
(*   al_isSubmittingFeedback                                               *)
(*                        the useState cell of the AdaptiveResponse the    *)
(*                        component mounts                                 *)
(*   al_posted            the calls of sendFeedback made from it, with     *)
(*                        their outcome                                    *)
(* exerciseCompleted and exerciseCorrect are left out: ExerciseContent is  *)
(* given no callback, so they stay false.                                  *)
(***************************************************************************)

\* how many times fetchAdaptiveContent is called in one behaviour
MaxFetches == 3

\* how many times a feedback button is clicked in one behaviour
MaxLearningFeedback == 2

\* the level prop
LearnerLevel == <<"i","n","i","c","i","a","n","t","e">>

\* the lists of gaps the component is mounted with
KnowledgeGapLists == { << <<"H","T","M","L">> >>, << <<"H","T","M","L">>, <<"C","S","S">>, <<"J","a","v","a","S","c","r","i","p","t">> >> }

\* the query analyzeQuery is given for a gap
ContentQuery(currentGap) == <<"E","x","p","l","i","q","u","e"," ">> \o currentGap \o <<" ","p","a","r","a"," ","n","í","v","e","l"," ">> \o LearnerLevel

\* the query generateExercises posts for a topic
ExerciseQuery(topic) == <<"G","e","r","e"," ","u","m"," ","e","x","e","r","c","í","c","i","o"," ","s","o","b","r","e"," ">> \o topic \o <<" ","p","a","r","a"," ","n","í","v","e","l"," ">> \o LearnerLevel

\* generateExercises, catch block: the message of the error it throws
generateExercisesError(failure) ==
  IF failure.replied
  THEN IF Truthy(failure.detail) THEN failure.detail ELSE <<"E","r","r","o"," ","a","o"," ","g","e","r","a","r"," ","e","x","e","r","c","í","c","i","o","s">>
  ELSE failure.message

\* what the backend replies to a call: an answer with its query_id, an
\* answer without a text, and a bare string
ContentReplies(query, call) ==
  { Reply(query, <<"q">> \o << Digit(call) >>), EmptyResponseReply, JsString(AnswerTo(query)) }

\* whether the AdaptiveResponse is part of the render
AdaptiveResponseMounted == ~al_isLoading /\ al_response # <<>> /\ ~al_exerciseMode

\* whether the two navigation buttons are part of the render
NavigationShown == ~al_isLoading /\ al_response # <<>> /\ Len(al_knowledgeGaps) > 1

LearningIdle ==
  /\ al_knowledgeGaps = <<>>
  /\ al_currentGapIndex = 0
  /\ al_isLoading = FALSE
  /\ al_response = <<>>
  /\ al_error = Null
  /\ al_feedbackStatus = Null
  /\ al_exerciseMode = FALSE
  /\ al_inFlight = {}
  /\ al_fetches = 0
  /\ al_shown = <<>>
  /\ al_isSubmittingFeedback = FALSE
  /\ al_posted = <<>>

\* the component mounted and its effect run: fetchAdaptiveContent up to its
\* await
LearningInit ==
  /\ al_knowledgeGaps \in KnowledgeGapLists
  /\ al_currentGapIndex = 0
  /\ al_isLoading = TRUE
  /\ al_response = <<>>
  /\ al_error = Null
  /\ al_feedbackStatus = <<"p","e","n","d","i","n","g">>
  /\ al_exerciseMode = FALSE
  /\ al_inFlight = { [fetch |-> 1, gapIndex |-> 0, exerciseMode |-> FALSE,
                      query |-> ContentQuery(al_knowledgeGaps[1])] }
  /\ al_fetches = 1
  /\ al_shown = <<>>
  /\ al_isSubmittingFeedback = FALSE
  /\ al_posted = <<>>

\* fetchAdaptiveContent up to its await, in the render that has the given
\* gap index and mode; the loading indicator takes the place of the
\* AdaptiveResponse, whose state is lost
fetchAdaptiveContent(currentGapIndex, exerciseMode) ==
  /\ al_fetches < MaxFetches
  /\ al_isLoading' = TRUE
  /\ al_error' = Null
  /\ al_feedbackStatus' = <<"p","e","n","d","i","n","g">>
  /\ al_fetches' = al_fetches + 1
  /\ al_inFlight' = al_inFlight \cup
       { [fetch |-> al_fetches + 1,
          gapIndex |-> currentGapIndex,
          exerciseMode |-> exerciseMode,
          query |-> IF exerciseMode
                    THEN ExerciseQuery(al_knowledgeGaps[currentGapIndex + 1])
                    ELSE ContentQuery(al_knowledgeGaps[currentGapIndex + 1])] }
  /\ al_isSubmittingFeedback' = FALSE
  /\ UNCHANGED <<al_knowledgeGaps, al_response, al_shown, al_posted>>

\* click on 'Ver Exercícios' / 'Ver Conteúdo', then the effect on
\* [currentGapIndex, exerciseMode]
toggleMode ==
  /\ al_exerciseMode' = ~al_exerciseMode
  /\ UNCHANGED al_currentGapIndex
  /\ fetchAdaptiveContent(al_currentGapIndex, ~al_exerciseMode)
  /\ UNCHANGED notLearningVars

navigateToNextGap_KeepsMode ==
  /\ NavigationShown
  /\ al_currentGapIndex # Len(al_knowledgeGaps) - 1
  /\ IF al_currentGapIndex < Len(al_knowledgeGaps) - 1
     THEN /\ al_currentGapIndex' = al_currentGapIndex + 1
          /\ UNCHANGED al_exerciseMode
          /\ fetchAdaptiveContent(al_currentGapIndex + 1, al_exerciseMode)
     ELSE UNCHANGED learningVars
  /\ UNCHANGED notLearningVars

\* click on 'Próximo Tópico', disabled at the last gap, then the effect
navigateToNextGap ==
  /\ NavigationShown
  /\ al_currentGapIndex # Len(al_knowledgeGaps) - 1
  /\ IF al_currentGapIndex < Len(al_knowledgeGaps) - 1
     THEN /\ al_currentGapIndex' = al_currentGapIndex + 1
          /\ al_exerciseMode' = FALSE
          /\ fetchAdaptiveContent(al_currentGapIndex + 1, FALSE)
     ELSE UNCHANGED learningVars
  /\ UNCHANGED notLearningVars

\* click on 'Tópico Anterior', disabled at the first gap, then the effect
navigateToPreviousGap ==
  /\ NavigationShown
  /\ al_currentGapIndex # 0
  /\ IF al_currentGapIndex > 0
     THEN /\ al_currentGapIndex' = al_currentGapIndex - 1
          /\ al_exerciseMode' = FALSE
          /\ fetchAdaptiveContent(al_currentGapIndex - 1, FALSE)
     ELSE UNCHANGED learningVars
  /\ UNCHANGED notLearningVars

\* click on 'Tentar novamente' under the error
RetryFetch ==
  /\ Truthy(al_error)
  /\ fetchAdaptiveContent(al_currentGapIndex, al_exerciseMode)
  /\ UNCHANGED <<al_currentGapIndex, al_exerciseMode>>
  /\ UNCHANGED notLearningVars

\* click on 'Carregar Conteúdo', shown while there is no response
LoadContent ==
  /\ ~al_isLoading
  /\ al_response = <<>>
  /\ fetchAdaptiveContent(al_currentGapIndex, al_exerciseMode)
  /\ UNCHANGED <<al_currentGapIndex, al_exerciseMode>>
  /\ UNCHANGED notLearningVars

\* analyzeQuery or generateExercises resolves for one call: the rest of
\* fetchAdaptiveContent
ContentResolves ==
  /\ \E frame \in al_inFlight :
       \E data \in ContentReplies(frame.query, frame.fetch) :
         \E result \in {processApiResponse(data, frame.query)} :
           /\ al_inFlight' = al_inFlight \ {frame}
           /\ IF ~Truthy(result.response)
              THEN /\ al_error' = InvalidResponseMessage
                   /\ UNCHANGED <<al_response, al_shown>>
              ELSE /\ al_response' = << result >>
                   /\ al_shown' = << frame >>
                   /\ UNCHANGED al_error
  /\ al_isLoading' = FALSE
  /\ UNCHANGED <<al_knowledgeGaps, al_currentGapIndex, al_feedbackStatus, al_exerciseMode,
                 al_fetches, al_isSubmittingFeedback, al_posted>>
  /\ UNCHANGED notLearningVars

\* analyzeQuery or generateExercises rejects for one call: the catch and
\* finally blocks
ContentRejects ==
  /\ \E frame \in al_inFlight, failure \in Failures :
       /\ al_inFlight' = al_inFlight \ {frame}
       /\ al_error' = FailurePrefix \o (IF frame.exerciseMode
                                        THEN generateExercisesError(failure)
                                        ELSE analyzeQueryError(failure))
  /\ al_isLoading' = FALSE
  /\ UNCHANGED <<al_knowledgeGaps, al_currentGapIndex, al_response, al_feedbackStatus,
                 al_exerciseMode, al_fetches, al_shown, al_isSubmittingFeedback, al_posted>>
  /\ UNCHANGED notLearningVars

\* onClick of 'Útil' or 'Não útil' of the mounted AdaptiveResponse:
\* handleFeedbackSubmit up to the await; which of the two was clicked
\* changes nothing but the feedback field of the request.  The feedbackStatus prop is never
\* undefined here, so internalFeedbackSubmitted stays false.
ClickLearningFeedback ==
  /\ AdaptiveResponseMounted
  /\ al_feedbackStatus # <<"s","u","b","m","i","t","t","e","d">>
  /\ ~al_isSubmittingFeedback
  /\ Len(al_posted) < MaxLearningFeedback
  /\ al_posted' = Append(al_posted,
       [ fetch    |-> al_shown[1].fetch,
         query_id |-> IF Truthy(al_response[1].query_id)
                      THEN al_response[1].query_id ELSE <<>>,
         mounted  |-> al_fetches,
         outcome  |-> "pending" ])
  /\ al_isSubmittingFeedback' = TRUE
  /\ UNCHANGED <<al_knowledgeGaps, al_currentGapIndex, al_isLoading, al_response, al_error,
                 al_feedbackStatus, al_exerciseMode, al_inFlight, al_fetches, al_shown>>
  /\ UNCHANGED notLearningVars

\* sendFeedback resolves: onFeedback, which is handleFeedback of
\* AdaptiveLearningContent, and the finally block, which reaches the
\* mounted AdaptiveResponse when it is still the one that made the call
LearningFeedbackResolves ==
  /\ \E i \in DOMAIN al_posted :
       /\ al_posted[i].outcome = "pending"
       /\ al_posted' = [al_posted EXCEPT ![i].outcome = "ok"]
       /\ al_isSubmittingFeedback' =
            IF al_posted[i].mounted = al_fetches THEN FALSE ELSE al_isSubmittingFeedback
  /\ al_feedbackStatus' = <<"s","u","b","m","i","t","t","e","d">>
  /\ UNCHANGED <<al_knowledgeGaps, al_currentGapIndex, al_isLoading, al_response, al_error,
                 al_exerciseMode, al_inFlight, al_fetches, al_shown>>
  /\ UNCHANGED notLearningVars

\* sendFeedback rejects: the catch and finally blocks of handleFeedbackSubmit
LearningFeedbackRejects ==
  /\ \E i \in DOMAIN al_posted :
       /\ al_posted[i].outcome = "pending"
       /\ al_posted' = [al_posted EXCEPT ![i].outcome = "failed"]
       /\ al_isSubmittingFeedback' =
            IF al_posted[i].mounted = al_fetches THEN FALSE ELSE al_isSubmittingFeedback
  /\ UNCHANGED <<al_knowledgeGaps, al_currentGapIndex, al_isLoading, al_response, al_error,
                 al_feedbackStatus, al_exerciseMode, al_inFlight, al_fetches, al_shown>>
  /\ UNCHANGED notLearningVars

(***************************************************************************)
(* Claims about mediaUtils.ts (SpecMedia)                                  *)
(***************************************************************************)

AllExtensions == VideoExtensions \cup AudioExtensions \cup ImageExtensions \cup TextExtensions

\* the inputs C9 speaks of: non-empty, no absolute URL, no media
\* subdirectory in front, an extension outside the recognised sets; read
\* narrowly, as plain relative paths (no leading slash, no root marker), so
\* that <path> is the input itself
C9_Applies(p) ==
  /\ p # <<>>
  /\ p[1] # "/"
  /\ ~includes(p, ProcessedData)
  /\ ~startsWith(p, <<"h","t","t","p",":","/","/">>)
  /\ ~startsWith(p, <<"h","t","t","p","s",":","/","/">>)
  /\ \A dir \in mediaDirs : ~startsWith(p, dir)
  /\ SplitPop(toLowerCase(p), ".") \notin AllExtensions

\* C9: a non-empty, non-absolute path with no media-subdirectory prefix and an
\* unrecognised extension is placed under text/, i.e. the result is
\* <apiUrl>/processed_data/text/<path>; and every non-empty non-absolute input
\* yields <apiUrl>/processed_data/<subdir>/<filename>.  (Non-absolute is read
\* as: neither an http(s) URL nor a path with a leading slash.)
C9_FallbackToText ==
  ("validateMediaUrl" \in mu_called /\ mu_input # <<>> /\ mu_input[1] # "/"
     /\ ~startsWith(mu_input, <<"h","t","t","p",":","/","/">>) /\ ~startsWith(mu_input, <<"h","t","t","p","s",":","/","/">>))
  => /\ C9_Applies(mu_input) => mu_url = apiUrl \o <<"/","p","r","o","c","e","s","s","e","d","_","d","a","t","a","/","t","e","x","t","/">> \o mu_input
     /\ \E dir \in mediaDirs : startsWith(mu_url, apiUrl \o ProcessedData \o dir)

\* the rule table of C10, read off the claim: the extension is what follows
\* the last dot of the lower-cased input
ExtensionOf(p) ==
  LET low == toLowerCase(p)
  IN  CHOOSE e \in {SubSeq(low, i, Len(low)) : i \in 1..(Len(low) + 1)} :
        /\ \A k \in 1..Len(e) : e[k] # "."
        /\ Len(e) = Len(low) \/ low[Len(low) - Len(e)] = "."

ContainsIgnoringCase(p, token) ==
  \E i \in 1..Len(p) :
     /\ i + Len(token) - 1 <= Len(p)
     /\ \A k \in 1..Len(token) : ToLowerChar(p[i + k - 1]) = token[k]

RuleTable(p) ==
  LET rules == <<
        [kind |-> "video",     exts |-> {<<"m","p","4">>, <<"a","v","i">>, <<"m","o","v">>, <<"m","k","v">>, <<"w","e","b","m">>},         tokens |-> {<<"/","v","i","d","e","o","s","/">>}],
        [kind |-> "audio",     exts |-> {<<"m","p","3">>, <<"w","a","v">>, <<"o","g","g">>, <<"a","a","c">>, <<"m","4","a">>},          tokens |-> {<<"/","a","u","d","i","o","/">>}],
        [kind |-> "image",     exts |-> {<<"j","p","g">>, <<"j","p","e","g">>, <<"p","n","g">>, <<"g","i","f">>, <<"s","v","g">>, <<"w","e","b","p">>}, tokens |-> {<<"/","i","m","a","g","e","s","/">>}],
        [kind |-> "exercises", exts |-> {<<"j","s","o","n">>},                                     tokens |-> {<<"e","x","e","r","c","í","c","i","o","s">>, <<"e","x","e","r","c","i","c","i","o","s">>}],
        [kind |-> "markdown",  exts |-> {<<"m","d">>, <<"t","x","t">>, <<"p","d","f">>},                         tokens |-> {<<"/","t","e","x","t","/">>}] >>
      hits == {i \in DOMAIN rules :
                 \/ ExtensionOf(p) \in rules[i].exts
                 \/ \E t \in rules[i].tokens : ContainsIgnoringCase(p, t)}
  IN  IF p = <<>> \/ hits = {} THEN "unknown" ELSE rules[Min(hits)].kind

\* C10: getFileType is total and equals the first-match rule table on every
\* input: empty -> unknown, then video, audio, image, exercises, markdown by
\* extension or path token, case-insensitively, an earlier rule winning.
C10_RuleTable ==
  "getFileType" \in mu_called
  => /\ mu_kind \in FileTypes
     /\ mu_kind = RuleTable(mu_input)
     /\ mu_input = <<"/","v","i","d","e","o","s","/","a",".","m","p","3">> => mu_kind = "video"
     /\ mu_input = <<"t","e","x","t","/","E","x","e","r","c","í","c","i","o","s",".","t","x","t">> => mu_kind = "exercises"

\* an audio extension under /videos/ has been classified (the earlier rule wins)
C10_Witness ==
  /\ "getFileType" \in mu_called
  /\ mu_input = <<"/","v","i","d","e","o","s","/","a",".","m","p","3">>
  /\ mu_kind = "video"

\* a bare filename: not empty, no directory in front
BareFilename(p) == p # <<>> /\ \A i \in 1..Len(p) : p[i] # "/"

\* the three media kinds of C11 with their extension sets and subdirectories
MediaKindTable ==
  { [kind |-> "video", exts |-> {<<"m","p","4">>, <<"a","v","i">>, <<"m","o","v">>, <<"m","k","v">>, <<"w","e","b","m">>},         dir |-> <<"v","i","d","e","o","s","/">>],
    [kind |-> "audio", exts |-> {<<"m","p","3">>, <<"w","a","v">>, <<"o","g","g">>, <<"a","a","c">>, <<"m","4","a">>},          dir |-> <<"a","u","d","i","o","/">>],
    [kind |-> "image", exts |-> {<<"j","p","g">>, <<"j","p","e","g">>, <<"p","n","g">>, <<"g","i","f">>, <<"s","v","g">>, <<"w","e","b","p">>}, dir |-> <<"i","m","a","g","e","s","/">>] }

\* C11: a bare filename with a video / audio / image extension, in any
\* letter case, is normalised to <apiUrl>/processed_data/<videos|audio|images>/
\* <filename>, and getFileType of that URL is video / audio / image.
C11_BareMediaFilename ==
  \A row \in MediaKindTable :
    (BareFilename(mu_input) /\ ExtensionOf(mu_input) \in row.exts)
      => /\ "validateMediaUrl" \in mu_called
              => mu_url = apiUrl \o <<"/","p","r","o","c","e","s","s","e","d","_","d","a","t","a","/">> \o row.dir \o mu_input
         /\ "getFileTypeOfUrl" \in mu_called => mu_urlKind = row.kind

\* an upper-case audio filename has been normalised and its URL classified
C11_Witness ==
  /\ mu_input = <<"D","i","c","a"," ","d","o"," ","p","r","o","f","e","s","s","o","r",".","O","G","G">>
  /\ "getFileTypeOfUrl" \in mu_called
  /\ mu_url = <<"h","t","t","p",":","/","/","l","o","c","a","l","h","o","s","t",":","8","0","0","0","/","p","r","o","c","e","s","s","e","d","_","d","a","t","a","/","a","u","d","i","o","/","D","i","c","a"," ","d","o"," ","p","r","o","f","e","s","s","o","r",".","O","G","G">>
  /\ mu_urlKind = "audio"

\* C12: validateMediaUrl returns a path that starts with http:// or https://
\* unchanged (root marker kept, no subdirectory put in front, no base URL),
\* and returns the empty string for the empty path.
C12_AbsoluteUnchanged ==
  "validateMediaUrl" \in mu_called
    => /\ (startsWith(mu_input, <<"h","t","t","p",":","/","/">>) \/ startsWith(mu_input, <<"h","t","t","p","s",":","/","/">>))
            => mu_url = mu_input
       /\ mu_input = <<>> => mu_url = <<>>

\* a complete URL that holds the root marker and names no media directory
\* has been normalised
C12_Witness ==
  /\ mu_input = <<"h","t","t","p","s",":","/","/","c","d","n","/","p","r","o","c","e","s","s","e","d","_","d","a","t","a","/","a",".","m","p","4">>
  /\ "validateMediaUrl" \in mu_called
  /\ mu_url = <<"h","t","t","p","s",":","/","/","c","d","n","/","p","r","o","c","e","s","s","e","d","_","d","a","t","a","/","a",".","m","p","4">>


\* C22: for a path that is no absolute URL and holds the root marker
\* '/processed_data/', validateMediaUrl returns what it returns for the
\* suffix after the marker alone, whatever stands before the marker
\* (nothing included).
C22_RootMarkerSuffix ==
  ( /\ "validateMediaUrl" \in mu_called
    /\ ~startsWith(mu_input, <<"h","t","t","p",":","/","/">>)
    /\ ~startsWith(mu_input, <<"h","t","t","p","s",":","/","/">>) )
  => \A i \in Occurrences(mu_input, ProcessedData, 1) :
       mu_url = validateMediaUrl(SubSeq(mu_input, i + Len(ProcessedData), Len(mu_input)))

\* C22 for a single marker with something in front of it
C22_RootMarkerAfterPrefix ==
  ( /\ "validateMediaUrl" \in mu_called
    /\ ~startsWith(mu_input, <<"h","t","t","p",":","/","/">>)
    /\ ~startsWith(mu_input, <<"h","t","t","p","s",":","/","/">>)
    /\ Cardinality(Occurrences(mu_input, ProcessedData, 1)) = 1
    /\ ~startsWith(mu_input, ProcessedData) )
  => \A i \in Occurrences(mu_input, ProcessedData, 1) :
       mu_url = validateMediaUrl(SubSeq(mu_input, i + Len(ProcessedData), Len(mu_input)))
(***************************************************************************)
(* Claims about AdaptiveResponse (SpecResponse)                            *)
(***************************************************************************)

\* C1: when the response text holds a comment marker <!-- file_path: X -->,
\* extractFilePath returns X (the X of the first marker), whatever labelled
\* lines or media references the text also holds and whatever file_path and
\* primary_media_type are.
C1_CommentMarkerFirst ==
  (ar_rendered /\ ar_marker # Null) => ar_filePath = ar_marker

\* a marker has won over an "Arquivo:" line in front of it and a file_path field
C1_Witness ==
  /\ ar_rendered
  /\ ar_marker = <<"v","i","d","e","o","s","/","x",".","m","p","4">>
  /\ startsWith(ar_data.response, <<"A","r","q","u","i","v","o",":"," ","a","u","d","i","o","/","A","u","l","a",".","m","p","3">>)
  /\ ar_data.file_path # Undefined
  /\ ar_filePath = <<"v","i","d","e","o","s","/","x",".","m","p","4">>

\* C2 as stated: whenever extractFilePath returns null, no media block is
\* rendered.
C2_NullRendersNothing ==
  (ar_rendered /\ ar_filePath = Null) => ar_blocks = <<>>

\* C2 amended: when extractFilePath returns null and primary_media_type is
\* declared and is not 'mixed', no media block is rendered; when it returns
\* null and primary_media_type is absent, empty or 'mixed', exactly the four
\* default blocks (video, audio, image, exercises) are rendered.
C2_NullRendersNothingUnlessMixed ==
  (ar_rendered /\ ar_filePath = Null)
  => IF ar_data.primary_media_type \in {Undefined, <<>>, <<"m","i","x","e","d">>}
     THEN ar_blocks = MixedDefaultBlocks
     ELSE ar_blocks = <<>>

\* no reference was found for a response that declares a single media type
C2_Witness ==
  /\ ar_rendered
  /\ ar_filePath = Null
  /\ ar_data.primary_media_type = <<"d","o","c","u","m","e","n","t">>
  /\ ar_blocks = <<>>

\* what the text patterns of extractFilePath yield on the response text:
\* the comment marker, the labelled line, the media-specific patterns
TextMatches ==
  { MatchComment(ar_data.response), MatchFileLine(ar_data.response),
    MatchMediaPatterns(ar_data.response) } \ {Null}

\* the kinds that have a default sample path
DefaultKinds == {<<"v","i","d","e","o">>, <<"a","u","d","i","o">>, <<"i","m","a","g","e">>, <<"t","e","x","t">>, <<"e","x","e","r","c","i","s","e","s">>}

\* C13 as stated: with no text pattern matching, extractFilePath returns
\* file_path when present, else the default sample path when
\* primary_media_type is one of video, audio, image, text, exercises, else
\* null; with a text pattern matching, it returns a path found in the text and
\* never the file_path field.
C13_FallbackChain ==
  ar_rendered
    => \E matches \in {TextMatches} :
       IF matches = {}
       THEN IF Truthy(ar_data.file_path) THEN ar_filePath = ar_data.file_path
            ELSE IF ar_data.primary_media_type \in DefaultKinds
                 THEN ar_filePath = defaultFiles(ar_data.primary_media_type)
            ELSE ar_filePath = Null
       ELSE ar_filePath \in matches /\ ar_filePath # ar_data.file_path

\* C13 amended: with no text pattern yielding a path, extractFilePath returns
\* file_path when it is present and not empty, else the default sample path
\* of the kind that primary_media_type names in any letter case (video,
\* audio, image, text, exercises), else null; with a text pattern yielding a
\* path, it returns a path found in the text and never the file_path field.
C13_FallbackChainAnyCase ==
  ar_rendered
    => \E matches \in {TextMatches} :
       IF matches = {}
       THEN IF Truthy(ar_data.file_path) THEN ar_filePath = ar_data.file_path
            ELSE IF /\ Truthy(ar_data.primary_media_type)
                    /\ toLowerCase(ar_data.primary_media_type) \in DefaultKinds
                 THEN ar_filePath = defaultFiles(toLowerCase(ar_data.primary_media_type))
            ELSE ar_filePath = Null
       ELSE ar_filePath \in matches /\ ar_filePath # ar_data.file_path

\* the default video path was returned for the type 'Video' of a response
\* with no reference in its text and no file_path
C13_Witness ==
  /\ ar_rendered
  /\ TextMatches = {}
  /\ ~Truthy(ar_data.file_path)
  /\ ar_data.primary_media_type = <<"V","i","d","e","o">>
  /\ ar_filePath = <<"v","i","d","e","o","s","/","D","i","c","a"," ","d","o"," ","p","r","o","f","e","s","s","o","r",".","m","p","4">>

\* the four default media blocks C14 names, at the base URL of the API
FourDefaultBlocks ==
  << [widget |-> "video",     src |-> <<"h","t","t","p",":","/","/","l","o","c","a","l","h","o","s","t",":","8","0","0","0","/","p","r","o","c","e","s","s","e","d","_","d","a","t","a","/","v","i","d","e","o","s","/","D","i","c","a"," ","d","o"," ","p","r","o","f","e","s","s","o","r",".","m","p","4">>],
     [widget |-> "audio",     src |-> <<"h","t","t","p",":","/","/","l","o","c","a","l","h","o","s","t",":","8","0","0","0","/","p","r","o","c","e","s","s","e","d","_","d","a","t","a","/","a","u","d","i","o","/","D","i","c","a"," ","d","o"," ","p","r","o","f","e","s","s","o","r",".","m","p","3">>],
     [widget |-> "image",     src |-> <<"h","t","t","p",":","/","/","l","o","c","a","l","h","o","s","t",":","8","0","0","0","/","p","r","o","c","e","s","s","e","d","_","d","a","t","a","/","i","m","a","g","e","s","/","I","n","f","o","g","r","a","f","i","c","o","-","1",".","j","p","g">>],
     [widget |-> "exercises", src |-> <<"h","t","t","p",":","/","/","l","o","c","a","l","h","o","s","t",":","8","0","0","0","/","p","r","o","c","e","s","s","e","d","_","d","a","t","a","/","t","e","x","t","/","E","x","e","r","c","í","c","i","o","s",".","t","x","t">>] >>

\* primary_media_type is 'mixed' or absent and the text has no comment marker
MixedWithoutMarker ==
  /\ ar_data.primary_media_type = <<"m","i","x","e","d">> \/ ~Truthy(ar_data.primary_media_type)
  /\ MatchComment(ar_data.response) = Null

\* the four default blocks are rendered together, in front of anything else
AllFourRendered ==
  Len(ar_blocks) >= 4 /\ SubSeq(ar_blocks, 1, 4) = FourDefaultBlocks

\* C14 as stated: with primary_media_type 'mixed' or absent and no comment
\* marker in the text, the four default media blocks are all rendered; with
\* a single declared kind, exactly one media block is rendered.
C14_MixedPolicy ==
  ar_rendered
    => /\ MixedWithoutMarker => AllFourRendered
       /\ ar_data.primary_media_type \in DefaultKinds => Len(ar_blocks) = 1

\* C14 amended: with primary_media_type 'mixed' or absent and no comment
\* marker in the text, the four default media blocks are all rendered; with
\* a single declared kind, at most one media block is rendered: none when
\* the extracted path is classified unknown, exactly one otherwise.
C14_MixedPolicyAtMostOne ==
  ar_rendered
    => /\ MixedWithoutMarker => AllFourRendered
       /\ ar_data.primary_media_type \in DefaultKinds
            => IF Truthy(ar_filePath) /\ getFileType(ar_filePath) = "unknown"
               THEN ar_blocks = <<>>
               ELSE Len(ar_blocks) = 1

\* a response of the declared kind video whose text names a file of unknown
\* kind has rendered no block
C14_Witness ==
  /\ ar_rendered
  /\ ar_data.primary_media_type = <<"v","i","d","e","o">>
  /\ ar_filePath = <<"n","o","t","a","s",".","d","o","c","x">>
  /\ ar_blocks = <<>>

\* the blocks rendered for the extracted path: those after the four default
\* blocks when primary_media_type is 'mixed' or absent, all blocks otherwise
BlocksOfExtractedPath ==
  IF ar_data.primary_media_type = <<"m","i","x","e","d">> \/ ~Truthy(ar_data.primary_media_type)
  THEN SubSeq(ar_blocks, 5, Len(ar_blocks))
  ELSE ar_blocks

\* C15: for an extracted path p the widget rendered is the one of
\* getFileType(p) (video player, audio player, image, exercises link,
\* document link for markdown) with validateMediaUrl(p) as its source, and
\* nothing when p is classified unknown; the response 'Arquivo: audio/Aula.mp3'
\* yields the path audio/Aula.mp3 and an audio widget on
\* <apiUrl>/processed_data/audio/Aula.mp3.
C15_RendererMapping ==
  (ar_rendered /\ Truthy(ar_filePath))
    => /\ IF getFileType(ar_filePath) = "unknown"
          THEN BlocksOfExtractedPath = <<>>
          ELSE BlocksOfExtractedPath =
                 << [widget |-> getFileType(ar_filePath), src |-> validateMediaUrl(ar_filePath)] >>
       /\ ar_data.response = <<"A","r","q","u","i","v","o",":"," ","a","u","d","i","o","/","A","u","l","a",".","m","p","3">>
            => /\ ar_filePath = <<"a","u","d","i","o","/","A","u","l","a",".","m","p","3">>
               /\ BlocksOfExtractedPath =
                    << [widget |-> "audio",
                        src |-> <<"h","t","t","p",":","/","/","l","o","c","a","l","h","o","s","t",":","8","0","0","0","/","p","r","o","c","e","s","s","e","d","_","d","a","t","a","/","a","u","d","i","o","/","A","u","l","a",".","m","p","3">>] >>

\* the end-to-end scenario: the response {response: 'Arquivo: audio/Aula.mp3'}
\* has rendered its audio widget
C15_Witness ==
  /\ ar_rendered
  /\ ar_data = [response |-> <<"A","r","q","u","i","v","o",":"," ","a","u","d","i","o","/","A","u","l","a",".","m","p","3">>, file_path |-> Undefined,
                primary_media_type |-> Undefined]
  /\ ar_filePath = <<"a","u","d","i","o","/","A","u","l","a",".","m","p","3">>
  /\ ar_blocks[5] = [widget |-> "audio",
                     src |-> <<"h","t","t","p",":","/","/","l","o","c","a","l","h","o","s","t",":","8","0","0","0","/","p","r","o","c","e","s","s","e","d","_","d","a","t","a","/","a","u","d","i","o","/","A","u","l","a",".","m","p","3">>]

\* whether a token (a run without white space) looks like a path: rooted at
\* "/", or at a drive letter, or a name ending in a dot and 2 to 4 letters
\* or digits
PathLike(token) ==
  \/ Len(token) >= 2 /\ token[1] = "/"
  \/ /\ Len(token) >= 4
     /\ IsAsciiLetter(token[1])
     /\ token[2] = ":"
     /\ token[3] \in {"\\", "/"}
  \/ \E n \in 2..4 :
       /\ Len(token) >= n + 2
       /\ token[Len(token) - n] = "."
       /\ \A k \in 1..n : IsAlnum(token[Len(token) - n + k])

\* the token that follows the label at position i of the text
TokenAfterLabel(text, i) ==
  LET label == IF MatchesAt(text, <<"a","r","q","u","i","v","o",":">>, i) THEN <<"a","r","q","u","i","v","o",":">> ELSE <<"f","i","l","e",":">>
      from  == SkipWhiteSpace(text, i + Len(label))
  IN  SubSeq(text, from, TokenEnd(text, from))

\* the path-like token of the first labelled line that has one, Null when
\* no "Arquivo:" or "File:" is followed by a path-like token
LabelledToken(text) ==
  LET lines == {i \in 1..Len(text) :
                  /\ MatchesAt(text, <<"a","r","q","u","i","v","o",":">>, i) \/ MatchesAt(text, <<"f","i","l","e",":">>, i)
                  /\ PathLike(TokenAfterLabel(text, i))}
  IN  IF lines = {} THEN Null ELSE TokenAfterLabel(text, Min(lines))

KindOrder == << "video", "audio", "image", "exercises", "text" >>

\* what the patterns of one kind find in the text
KindReferences(text, kind) ==
  { MatchPattern(text, patterns[n]) : n \in {m \in DOMAIN patterns : patterns[m].type = kind} }
    \ {Null}

\* C21: with no comment marker in the text, a labelled line "Arquivo:" or
\* "File:" followed by a path-like token makes extractFilePath return that
\* token, whatever the media-specific patterns find; with no such line
\* either, extractFilePath returns a reference found by the patterns of the
\* first kind, in the order video, audio, image, exercises, text, whose
\* patterns find one, wherever in the text the references stand.
C21_MiddleTiers ==
  (ar_rendered /\ ar_marker = Null /\ MatchComment(ar_data.response) = Null)
    => \E labelled \in {LabelledToken(ar_data.response)} :
       IF labelled # Null
       THEN ar_filePath = labelled
       ELSE \A k \in 1..5 :
              ( /\ KindReferences(ar_data.response, KindOrder[k]) # {}
                /\ \A j \in 1..(k - 1) : KindReferences(ar_data.response, KindOrder[j]) = {} )
              => ar_filePath \in KindReferences(ar_data.response, KindOrder[k])

\* an audio reference stands before a video reference, no labelled line, no
\* marker: the video reference is returned
C21_Witness ==
  /\ ar_rendered
  /\ ar_marker = Null
  /\ LabelledToken(ar_data.response) = Null
  /\ indexOf(ar_data.response, <<"a","u","d","i","o","/","A","u","l","a",".","m","p","3">>, 1) > 0
  /\ indexOf(ar_data.response, <<"a","u","d","i","o","/","A","u","l","a",".","m","p","3">>, 1)
       < indexOf(ar_data.response, <<"v","i","d","e","o","s","/","A","u","l","a",".","m","p","4">>, 1)
  /\ ar_filePath = <<"v","i","d","e","o","s","/","A","u","l","a",".","m","p","4">>

(***************************************************************************)
(* Claims about the assessment flow (SpecAssess)                           *)
(***************************************************************************)

AllAnswered ==
  /\ ip_questions # <<>>
  /\ \A i \in DOMAIN ip_questions : ip_questions[i].userResponse # Undefined

\* the topics whose level question carries the answer 'iniciante', in the
\* order of the topic list
BeginnerTopics ==
  LET chosen == SelectSeq([i \in 1..Len(topics) |-> i],
                          LAMBDA i : ip_questions[i].userResponse = <<"i","n","i","c","i","a","n","t","e">>)
  IN  [k \in 1..Len(chosen) |-> topics[chosen[k]]]

IsPrefix(s, t) == Len(s) <= Len(t) /\ SubSeq(t, 1, Len(s)) = s

\* C3: onComplete is called at most once; it has been called exactly when
\* the assessment is marked complete, and then every question of the list
\* carries an answer, the last question is the current one and no analysis
\* call is outstanding; and the completion screen, whose button would call
\* onComplete again, is never shown, because the first call makes
\* LearningPage replace the prompt.
C3_OnCompleteOnce ==
  /\ Len(lp_completions) <= 1
  /\ ip_assessmentComplete <=> Len(lp_completions) = 1
  /\ Len(lp_completions) = 1 =>
       /\ AllAnswered
       /\ ip_currentQuestion[1].id = ip_questions[Len(ip_questions)].id
       /\ ip_completing = <<>>
       /\ lp_assessmentResult = << lp_completions[1] >>
  /\ ~CompletionScreenShown

\* the run has completed: one call of onComplete, the prompt replaced
C3_Witness ==
  /\ Len(lp_completions) = 1
  /\ AllAnswered
  /\ ip_assessmentComplete
  /\ ~PromptMounted

\* C4 as stated: the knowledgeGaps of the onComplete payload hold every gap
\* of the run, those added during completion included, and preferredFormat
\* and level are the values the answers set.
C4_PayloadHasEveryGap ==
  lp_completions # <<>> =>
    /\ Range(ip_knowledgeGaps) \subseteq Range(lp_completions[1].knowledgeGaps)
    /\ lp_completions[1].preferredFormat = ip_preferredFormat
    /\ lp_completions[1].level = ip_userLevel

\* C5: until the last question is answered, knowledgeGaps is exactly the
\* topics whose level question was answered 'iniciante', in topic order (the
\* whole topic list when all five were); afterwards these topics remain its
\* prefix.
C5_GapsAreBeginnerTopics ==
  ip_currentStep > 0 =>
    /\ IsPrefix(BeginnerTopics, ip_knowledgeGaps)
    /\ ip_questions[Len(ip_questions)].userResponse = Undefined
         => ip_knowledgeGaps = BeginnerTopics
    /\ (\A i \in 1..Len(topics) : ip_questions[i].userResponse = <<"i","n","i","c","i","a","n","t","e">>)
         => IsPrefix(<< <<"H","T","M","L">>, <<"C","S","S">>, <<"J","a","v","a","S","c","r","i","p","t">>, <<"A","c","e","s","s","i","b","i","l","i","d","a","d","e"," ","W","e","b">>,
                        <<"R","e","s","p","o","n","s","i","v","i","d","a","d","e">> >>, ip_knowledgeGaps)

\* the five level questions answered 'iniciante', the format question current
C5_Witness ==
  /\ ip_currentStep > 0
  /\ \A i \in 1..Len(topics) : ip_questions[i].userResponse = <<"i","n","i","c","i","a","n","t","e">>
  /\ ip_currentQuestion[1].id = Len(topics) + 1
  /\ ip_knowledgeGaps = << <<"H","T","M","L">>, <<"C","S","S">>, <<"J","a","v","a","S","c","r","i","p","t">>, <<"A","c","e","s","s","i","b","i","l","i","d","a","d","e"," ","W","e","b">>,
                          <<"R","e","s","p","o","n","s","i","v","i","d","a","d","e">> >>

\* C7 as stated, for InteractivePrompt: while userId is empty or only white
\* space the prompt stays in its initial state, with no questions generated.
C7_BlankUserIdBlocksStart ==
  trim(ip_userId) = <<>> => (ip_currentStep = 0 /\ ip_questions = <<>>)

\* the list position of the current question, 0 before the start
CurrentPosition ==
  IF ip_currentQuestion = <<>> THEN 0
  ELSE CHOOSE i \in DOMAIN ip_questions : ip_questions[i].id = ip_currentQuestion[1].id

Answered(i) == ip_questions[i].userResponse # Undefined

\* five topic-level questions, the format question, two open-ended questions
FixedQuestionList ==
  /\ Len(ip_questions) = 8
  /\ \A i \in 1..8 : ip_questions[i].id = i
  /\ \A i \in 1..5 :
        /\ ip_questions[i].type = "multiple-choice"
        /\ ip_questions[i].options = << <<"i","n","i","c","i","a","n","t","e">>, <<"i","n","t","e","r","m","e","d","i","á","r","i","o">>, <<"a","v","a","n","ç","a","d","o">> >>
  /\ ip_questions[6].type = "multiple-choice"
  /\ ip_questions[6].options = << <<"t","e","x","t","o">>, <<"v","í","d","e","o">>, <<"á","u","d","i","o">>, <<"i","m","a","g","e","m">> >>
  /\ \A i \in 7..8 : ip_questions[i].type = "open-ended"

\* the questions before the current one carry an answer, those after it
\* carry none, and the current one carries one only when it is the last
AnsweredUpToCurrent ==
  /\ CurrentPosition \in 1..8
  /\ \A i \in 1..8 : i < CurrentPosition => Answered(i)
  /\ \A i \in 1..8 : i > CurrentPosition => ~Answered(i)
  /\ Answered(CurrentPosition) => CurrentPosition = 8

\* C18: from the start on the question list is the fixed list of five
\* topic-level questions, the format question and two open-ended questions;
\* the answered questions are exactly those before the current one (and the
\* last, once answered); a step records an answer only on the current
\* question and then moves to the next position, so the position never
\* decreases and never skips a question.
C18_ForwardOnly ==
  /\ [](ip_currentStep > 0 => (FixedQuestionList /\ AnsweredUpToCurrent))
  /\ [][ /\ CurrentPosition' \in {CurrentPosition, CurrentPosition + 1}
         /\ (ip_currentStep > 0 /\ ip_questions' # ip_questions)
              => /\ \A i \in 1..8 : i # CurrentPosition => ip_questions'[i] = ip_questions[i]
                 /\ ip_questions'[CurrentPosition] =
                      [ip_questions[CurrentPosition] EXCEPT !.userResponse = ip_userInput]
                 /\ CurrentPosition' = IF CurrentPosition < 8 THEN CurrentPosition + 1 ELSE 8 ]_vars

\* six questions answered, the first open-ended question current
C18_Witness ==
  /\ ip_currentStep > 0
  /\ CurrentPosition = 7
  /\ \A i \in 1..6 : Answered(i)
  /\ ~Answered(7)
  /\ ~Answered(8)

\* the votes of a level among the topic-level answers given so far
LevelVotes(level) ==
  Cardinality({i \in 1..5 : ip_questions[i].userResponse = level})

TopicLevelAnswered == ip_currentStep > 0 /\ \E i \in 1..5 : Answered(i)

\* the levels with the most votes
TopLevels ==
  {l \in Range(Levels) : \A m \in Range(Levels) : LevelVotes(l) >= LevelVotes(m)}

\* C19 as stated: after each topic-level answer userLevel is a level with
\* the most votes among the topic-level answers given so far, and when
\* 'intermediário' is among the levels tied for the most votes, userLevel
\* is 'intermediário'.
C19_LevelVote ==
  TopicLevelAnswered =>
    /\ ip_userLevel \in TopLevels
    /\ (Cardinality(TopLevels) > 1 /\ <<"i","n","t","e","r","m","e","d","i","á","r","i","o">> \in TopLevels)
          => ip_userLevel = <<"i","n","t","e","r","m","e","d","i","á","r","i","o">>

\* C19 amended: after each topic-level answer userLevel is the level with
\* the most votes among the topic-level answers given so far; levels tied
\* for the most votes are resolved in favour of the one that comes first in
\* the order iniciante, intermediário, avançado.
C19_LevelVoteFirstInOrder ==
  TopicLevelAnswered =>
    \E k \in 1..3 :
      /\ Levels[k] \in TopLevels
      /\ \A j \in 1..(k - 1) : Levels[j] \notin TopLevels
      /\ ip_userLevel = Levels[k]

\* 'iniciante' and 'intermediário' tied with two votes each
C19_Witness ==
  /\ TopicLevelAnswered
  /\ LevelVotes(<<"i","n","i","c","i","a","n","t","e">>) = 2
  /\ LevelVotes(<<"i","n","t","e","r","m","e","d","i","á","r","i","o">>) = 2
  /\ LevelVotes(<<"a","v","a","n","ç","a","d","o">>) = 0
  /\ ip_userLevel = <<"i","n","i","c","i","a","n","t","e">>

\* the answered open-ended questions, in list order
AnsweredOpenEnded ==
  SelectSeq(ip_questions, LAMBDA q : q.type = "open-ended" /\ Answered(q.id))

\* the number of completion analysis calls outstanding
OutstandingCalls == Len(ip_completing)

\* the question whose call is outstanding
AnalysedQuestion(completing) ==
  completing[1].openEndedQuestions[completing[1].awaited]

\* this step issues the call for the k-th answered open-ended question
IssuesCall(k) ==
  /\ ip_completing' # <<>>
  /\ ip_completing'[1].awaited = k
  /\ ip_completing = <<>> \/ ip_completing[1].awaited # k

\* this step ends a completion run by a failure: the loading flag is reset
\* and the assessment is not complete
CompletionFails == ip_isLoading /\ ~ip_isLoading' /\ ~ip_assessmentComplete'

\* C20: during completion at most one analysis call is outstanding, and it
\* is the call for an answered open-ended question; the first call is
\* issued for the first such question when none is outstanding, and the
\* call for the k-th question is issued by the step that resolves the call
\* for question k-1; the callback is invoked only by the step that resolves
\* the call for the last question; a failed call ends the run with no call
\* outstanding and without invoking the callback.
C20_SequentialAnalysis ==
  /\ [](/\ OutstandingCalls <= 1
        /\ ip_completing # <<>> =>
             /\ ip_isLoading
             /\ ip_completing[1].openEndedQuestions = AnsweredOpenEnded
             /\ ip_completing[1].awaited \in 1..Len(AnsweredOpenEnded))
  /\ [][ /\ IssuesCall(1) => ip_completing = <<>>
         /\ \A k \in 2..8 :
              IssuesCall(k) => /\ ip_completing # <<>>
                               /\ ip_completing[1].awaited = k - 1
                               /\ ~CompletionFails
                               /\ ip_error' = ip_error
         /\ Len(lp_completions') > Len(lp_completions)
              => /\ ip_completing # <<>>
                 /\ ip_completing[1].awaited = Len(AnsweredOpenEnded)
                 /\ ip_completing' = <<>>
                 /\ Len(lp_completions') = Len(lp_completions) + 1
         /\ (ip_completing # <<>> /\ ip_error' # ip_error) \/ CompletionFails
              => /\ ip_completing' = <<>>
                 /\ lp_completions' = lp_completions
                 /\ ~ip_assessmentComplete' ]_vars

\* the call for the second open-ended question is outstanding, after the
\* call for the first has resolved
C20_Witness ==
  /\ ip_completing # <<>>
  /\ ip_completing[1].awaited = 2
  /\ AnalysedQuestion(ip_completing).id = 8
  /\ ip_isLoading
  /\ lp_completions = <<>>


\* C28: in every reachable state knowledgeGaps holds no topic twice.
C28_NoDuplicateGaps ==
  \A i, j \in DOMAIN ip_knowledgeGaps :
    i # j => ip_knowledgeGaps[i] # ip_knowledgeGaps[j]
(***************************************************************************)
(* Claims about the Home page (SpecHome)                                   *)
(***************************************************************************)

\* a reply object without a string response property, or with an empty one
LacksResponse(data) ==
  /\ data.type = "object"
  /\ \/ Get(data, <<"r","e","s","p","o","n","s","e">>).type # "string"
     \/ Get(data, <<"r","e","s","p","o","n","s","e">>).text = <<>>

\* C6 as stated: when the reply that resolves a query is an object that
\* lacks a string response (or whose response is empty), the step sets the
\* 'empty or invalid response' error, which is not the message of a failed
\* call, and appends nothing to responses.
C6_InvalidPayloadIsError ==
  [][ (hm_resolved' = hm_resolved + 1 /\ LacksResponse(hm_received'))
        => /\ hm_error' = InvalidResponseMessage
           /\ ~startsWith(hm_error', FailurePrefix)
           /\ hm_responses' = hm_responses ]_vars


\* what the backend may have answered to a query, as handleSearch stores it
ResponsesTo(query) ==
  { processApiResponse(data, query) :
      data \in UNION { ReplyBodies(query, call) : call \in 1..MaxSearches } }

\* C26: whenever both queries[i] and responses[i] exist, responses[i] is a
\* response of the backend to queries[i], whatever searches, successes,
\* failures, invalid replies and clearChat came before.
C26_ResponsePairing ==
  \A i \in DOMAIN hm_responses :
    i <= Len(hm_queries) => hm_responses[i] \in ResponsesTo(hm_queries[i])
(***************************************************************************)
(* Claims about ExerciseContent                                            *)
(***************************************************************************)

\* C8: once the loading of an exercise file is over with content fetched and
\* no exercise to show, the component is in its error state, and the error
\* is none of those a failed fetch gives; the content went through the
\* plain-text parser on the way.
C8_NoExercisesIsError ==
  (~ex_loading /\ ex_content # Undefined /\ Len(ex_exercises) = 0)
    => /\ Truthy(ex_error)
       /\ ex_error \notin FetchFailureMessages
       /\ parseTextExercises(ex_content) = <<>>

\* how C16 reads each line a text file is written from: its kind and the
\* text it carries
LineReadings ==
  { [line |-> <<"1","."," ","W","h","a","t"," ","i","s"," ","X","?">>,          kind |-> "question",    value |-> <<"W","h","a","t"," ","i","s"," ","X","?">>],
    [line |-> <<" "," ","1","2",")"," "," ","E"," ","C","S","S","?"," ">>,         kind |-> "question",    value |-> <<"E"," ","C","S","S","?">>],
    [line |-> <<"a",")"," ","f","o","o">>,                 kind |-> "option",      value |-> <<"f","o","o">>],
    [line |-> <<"b",")"," ","b","a","r">>,                 kind |-> "option",      value |-> <<"b","a","r">>],
    [line |-> <<"R","e","s","p","o","s","t","a",":"," ","a">>,            kind |-> "answer",      value |-> <<"a">>],
    [line |-> <<"E","x","p","l","i","c","a","ç","ã","o",":"," ","p","o","r","q","u","e"," ","s","i","m">>, kind |-> "explanation", value |-> <<"p","o","r","q","u","e"," ","s","i","m">>],
    [line |-> <<>>,                     kind |-> "blank",       value |-> <<>>],
    [line |-> <<"L","i","s","t","a"," ","d","e"," ","e","x","e","r","c","í","c","i","o","s">>,    kind |-> "other",       value |-> <<>>] }

\* the lines of a text, cut at the line feeds
RECURSIVE LinesOf(_)
LinesOf(text) ==
  IF \E i \in 1..Len(text) : text[i] = "\n"
  THEN LET i == CHOOSE k \in 1..Len(text) :
                  text[k] = "\n" /\ \A m \in 1..(k - 1) : text[m] # "\n"
       IN  << SubSeq(text, 1, i - 1) >> \o LinesOf(SubSeq(text, i + 1, Len(text)))
  ELSE << text >>

ReadingOf(line) == CHOOSE r \in LineReadings : r.line = line

\* the texts C16 speaks of: every line has a reading, and no line of another
\* kind follows a question
ReadByC16(text) ==
  LET lines == LinesOf(text)
  IN  /\ \A i \in DOMAIN lines : \E r \in LineReadings : r.line = lines[i]
      /\ \A i, k \in DOMAIN lines :
            (i < k /\ ReadingOf(lines[i]).kind = "question") => ReadingOf(lines[k]).kind # "other"

\* the exercises C16 expects of the lines from position i on; done are the
\* exercises finished so far, cur the exercise being read (<<>> before the
\* first question); options is <<>> or holds the list of options
RECURSIVE ExpectedExercises(_, _, _, _)
ExpectedExercises(lines, i, done, cur) ==
  IF i > Len(lines) THEN done \o cur
  ELSE LET r == ReadingOf(lines[i])
       IN  IF r.kind = "question"
           THEN ExpectedExercises(lines, i + 1, done \o cur,
                  << [question |-> r.value, options |-> <<>>,
                      answer |-> Undefined, explanation |-> Undefined] >>)
           ELSE IF cur = <<>> THEN ExpectedExercises(lines, i + 1, done, cur)
           ELSE IF r.kind = "option"
           THEN ExpectedExercises(lines, i + 1, done,
                  << [cur[1] EXCEPT !.options =
                        IF @ = <<>> THEN << << r.value >> >> ELSE << Append(@[1], r.value) >>] >>)
           ELSE IF r.kind = "answer"
           THEN ExpectedExercises(lines, i + 1, done, << [cur[1] EXCEPT !.answer = r.value] >>)
           ELSE IF r.kind = "explanation"
           THEN ExpectedExercises(lines, i + 1, done, << [cur[1] EXCEPT !.explanation = r.value] >>)
           ELSE ExpectedExercises(lines, i + 1, done, cur)

\* an exercise of the component as question, options, answer, explanation
ExerciseView(exercise) ==
  [ question    |-> TextOf(Get(exercise, <<"q","u","e","s","t","i","o","n">>)),
    options     |-> IF Get(exercise, <<"o","p","t","i","o","n","s">>).type = "array"
                    THEN << [k \in DOMAIN Get(exercise, <<"o","p","t","i","o","n","s">>).items |->
                               Get(exercise, <<"o","p","t","i","o","n","s">>).items[k].text] >>
                    ELSE <<>>,
    answer      |-> TextOf(Get(exercise, <<"a","n","s","w","e","r">>)),
    explanation |-> TextOf(Get(exercise, <<"e","x","p","l","a","n","a","t","i","o","n">>)) ]

LoadedExercises == [i \in DOMAIN ex_exercises |-> ExerciseView(ex_exercises[i])]

\* C16: of a text file the plain-text parser returns, in order, one exercise
\* per question line <digits>[.)]<rest>, its question being <rest> trimmed,
\* its options the <rest> of the option lines <letter>[.)] <rest> that follow,
\* in order, its answer and explanation those of the Resposta: and
\* Explicação: lines that follow; blank lines and lines before the first
\* question are skipped.  '1. What is X?' / 'a) foo' / 'b) bar' / 'Resposta: a'
\* gives exactly one exercise: 'What is X?', ['foo', 'bar'], 'a'.
C16_TextParser ==
  (~ex_loading /\ ex_content # Undefined)
    => /\ ReadByC16(ex_content)
            => LoadedExercises = ExpectedExercises(LinesOf(ex_content), 1, <<>>, <<>>)
       /\ ex_content = <<"1","."," ","W","h","a","t"," ","i","s"," ","X","?","\n","a",")"," ","f","o","o","\n","b",")"," ","b","a","r","\n","R","e","s","p","o","s","t","a",":"," ","a">>
            => LoadedExercises =
                 << [question |-> <<"W","h","a","t"," ","i","s"," ","X","?">>, options |-> << << <<"f","o","o">>, <<"b","a","r">> >> >>,
                     answer |-> <<"a">>, explanation |-> Undefined] >>

\* the file of the example has been loaded and shows its one exercise
C16_Witness ==
  /\ ~ex_loading
  /\ ex_content = <<"1","."," ","W","h","a","t"," ","i","s"," ","X","?","\n","a",")"," ","f","o","o","\n","b",")"," ","b","a","r","\n","R","e","s","p","o","s","t","a",":"," ","a">>
  /\ ex_error = Null
  /\ Len(ex_exercises) = 1
  /\ ExerciseView(ex_exercises[1]).options = << << <<"f","o","o">>, <<"b","a","r">> >> >>

\* the values of an object's properties that are objects with a question
\* property, in the order of the properties
QuestionValues(document) ==
  LET holds == SelectSeq(document.entries,
                         LAMBDA e : /\ e.value.type = "object"
                                    /\ \E k \in DOMAIN e.value.entries :
                                         e.value.entries[k].key = <<"q","u","e","s","t","i","o","n">>)
  IN  [i \in DOMAIN holds |-> holds[i].value]

\* what the JSON strategies of C23 yield for a document, <<>> when they
\* yield nothing; found tells which of the two
JsonReading(document) ==
  IF document.type = "array" THEN [found |-> TRUE, exercises |-> document.items]
  ELSE IF /\ document.type = "object"
          /\ \E i \in DOMAIN document.entries :
                document.entries[i].key = <<"e","x","e","r","c","i","s","e","s">> /\ document.entries[i].value.type = "array"
  THEN [found |-> TRUE,
        exercises |-> (CHOOSE e \in Range(document.entries) : e.key = <<"e","x","e","r","c","i","s","e","s">>).value.items]
  ELSE IF document.type = "object" /\ QuestionValues(document) # <<>>
  THEN [found |-> TRUE, exercises |-> QuestionValues(document)]
  ELSE [found |-> FALSE, exercises |-> <<>>]

\* C23: content that is the JSON text of an array gives that array as the
\* exercise list; else an object with an array property exercises gives that
\* array; else the values of the object that are objects with a question
\* property are the list, in the order of the properties; the list is that
\* of the plain-text parser only when the content is no JSON text or these
\* strategies yield nothing.  The content
\* {"exercises":[{"question":"Q1","options":["a","b"],"answer":"a"}]} gives
\* exactly one exercise with those fields.
C23_JsonStrategyOrder ==
  (~ex_loading /\ ex_content # Undefined)
    => /\ \A document \in ExerciseDocuments :
            (JSONstringify(document) = ex_content /\ JsonReading(document).found)
              => ex_exercises = JsonReading(document).exercises /\ ex_error = Null
       /\ ( \A document \in ExerciseDocuments :
               JSONstringify(document) = ex_content => ~JsonReading(document).found )
            => /\ ex_exercises = parseTextExercises(ex_content)
               /\ ex_exercises = <<>> <=> Truthy(ex_error)
       /\ ex_content = <<"{","\"","e","x","e","r","c","i","s","e","s","\"",":","[","{","\"","q","u","e","s","t","i","o","n","\"",":","\"","Q","1","\"",",","\"","o","p","t","i","o","n","s","\"",":","[","\"","a","\"",",","\"","b","\"","]",",","\"","a","n","s","w","e","r","\"",":","\"","a","\"","}","]","}">>
            => LoadedExercises =
                 << [question |-> <<"Q","1">>, options |-> << << <<"a">>, <<"b">> >> >>,
                     answer |-> <<"a">>, explanation |-> Undefined] >>

\* an object holding both a question object and an exercises array has been
\* loaded: the array is the list
C23_Witness ==
  /\ ~ex_loading
  /\ ex_content = JSONstringify(
         JsObject(<< Property(<<"q","1">>, OtherExercise),
                     Property(<<"e","x","e","r","c","i","s","e","s">>, JsArray(<< SampleExercise >>)) >>))
  /\ ex_exercises = << SampleExercise >>
  /\ ex_error = Null

\* the texts whose every line has a reading
AllLinesRead(text) ==
  \A i \in DOMAIN LinesOf(text) : \E r \in LineReadings : r.line = LinesOf(text)[i]

\* the positions of the question-start lines, in source order
QuestionPositions(lines) ==
  SelectSeq([i \in 1..Len(lines) |-> i], LAMBDA i : ReadingOf(lines[i]).kind = "question")

\* the lines of one kind among the lines from position a to position b
LinesOfKind(lines, a, b, kind) ==
  SelectSeq(SubSeq(lines, a, b), LAMBDA l : ReadingOf(l).kind = kind)

\* the exercise C24 expects of the k-th question-start line
ShapedExercise(lines, k) ==
  LET at      == QuestionPositions(lines)
      next    == IF k < Len(at) THEN at[k + 1] ELSE Len(lines) + 1
      options == LinesOfKind(lines, at[k] + 1, next - 1, "option")
      firstOption ==
        Min({i \in (at[k] + 1)..(next - 1) : ReadingOf(lines[i]).kind = "option"} \cup {next})
      continuation == LinesOfKind(lines, at[k] + 1, firstOption - 1, "other")
  IN  [ question |-> Join(<< ReadingOf(lines[at[k]]).value >> \o continuation, <<" ">>),
        options  |-> IF options = <<>> THEN <<>>
                     ELSE << [i \in DOMAIN options |-> ReadingOf(options[i]).value] >> ]

\* C24: of a text file the plain-text parser returns exactly one exercise
\* per question-start line, in source order, equal question lines giving
\* equal exercises twice; the last exercise is returned too; no question is
\* empty; the options of an exercise are the option lines between its
\* question line and the next question line, and it has none when there is
\* none; a line of no other kind is appended to the question when it
\* stands before the first option line of the exercise, and dropped after.
C24_OutputShape ==
  (~ex_loading /\ ex_content # Undefined /\ AllLinesRead(ex_content))
    => \E lines \in {LinesOf(ex_content)} :
         \E result \in {parseTextExercises(ex_content)} :
           /\ ex_exercises = result
           /\ Len(result) = Len(QuestionPositions(lines))
           /\ \A k \in DOMAIN result :
                /\ ExerciseView(result[k]).question # <<>>
                /\ ExerciseView(result[k]).question = ShapedExercise(lines, k).question
                /\ ExerciseView(result[k]).options = ShapedExercise(lines, k).options

\* a free line after an option was dropped, the option kept
C24_Witness ==
  /\ ~ex_loading
  /\ ex_content = <<"1","."," ","W","h","a","t"," ","i","s"," ","X","?","\n","a",")"," ","f","o","o","\n","L","i","s","t","a"," ","d","e"," ","e","x","e","r","c","í","c","i","o","s">>
  /\ Len(ex_exercises) = 1
  /\ ExerciseView(ex_exercises[1]).question = <<"W","h","a","t"," ","i","s"," ","X","?">>
  /\ ExerciseView(ex_exercises[1]).options = << << <<"f","o","o">> >> >>

\* the options rendered for an exercise of the list
OptionsOf(i) ==
  IF Get(ex_exercises[i], <<"o","p","t","i","o","n","s">>).type = "array"
  THEN Range(Get(ex_exercises[i], <<"o","p","t","i","o","n","s">>).items)
  ELSE {}

\* C25: while the exercise list is shown, an option carries the check mark
\* only when results are shown, it is the option selected for its exercise
\* and it is the same string as the stated answer; an exercise whose stated
\* answer is none of its options has no option with the check mark; no step
\* of answering, verifying or resetting sets an error; while results are
\* shown the selections do not change, and the step that hides the results
\* leaves no selection.
C25_AnswerChecking ==
  /\ [](ExercisesShown =>
          \A i \in DOMAIN ex_exercises :
            /\ \A option \in OptionsOf(i) :
                 OptionMark(i, option) = "correct"
                   => /\ ex_showResults
                      /\ i \in DOMAIN ex_selectedAnswers
                      /\ ex_selectedAnswers[i] = << option >>
                      /\ option.type = "string"
                      /\ Get(ex_exercises[i], <<"a","n","s","w","e","r">>).type = "string"
                      /\ option.text = Get(ex_exercises[i], <<"a","n","s","w","e","r">>).text
            /\ (\A option \in OptionsOf(i) : option # Get(ex_exercises[i], <<"a","n","s","w","e","r">>))
                 => \A option \in OptionsOf(i) : OptionMark(i, option) # "correct")
  /\ [][ /\ ExercisesShown => (ExercisesShown' /\ ex_error' = ex_error)
         /\ (ex_showResults /\ ex_showResults') => ex_selectedAnswers' = ex_selectedAnswers
         /\ (~ex_showResults /\ ex_showResults') => ex_selectedAnswers' = ex_selectedAnswers
         /\ (ex_showResults /\ ~ex_showResults') => DOMAIN ex_selectedAnswers' = {} ]_vars

\* results are shown: the selected option that is the stated answer carries
\* the check mark, and the selection for the exercise whose stated answer is
\* none of its options carries the cross
C25_Witness ==
  /\ ExercisesShown
  /\ ex_showResults
  /\ ex_exercises = << SampleExercise, OtherExercise >>
  /\ OptionMark(1, JsString(<<"U","m","a"," ","l","i","n","g","u","a","g","e","m">>)) = "correct"
  /\ OptionMark(1, JsString(<<"U","m"," ","b","a","n","c","o">>)) = "none"
  /\ OptionMark(2, JsString(<<"E","s","t","i","l","o">>)) = "incorrect"

(***************************************************************************)
(* Claims about the asynchronous handlers                                  *)
(***************************************************************************)

\* the feedback area shows the error of the last failed call
FeedbackErrorShown ==
  /\ fb_logged # <<>>
  /\ \E i \in DOMAIN FeedbackArea : includes(FeedbackArea[i], fb_logged[Len(fb_logged)])

\* C17, for handleFeedbackSubmit: when the call of sendFeedback fails, the
\* handler ends with its loading flag isSubmittingFeedback false again and
\* with an error the user can see.
C17_FailureBecomesUiState ==
  [][ Len(fb_logged') > Len(fb_logged)
        => ~fb_isSubmittingFeedback' /\ FeedbackErrorShown' ]_vars

(***************************************************************************)
(* Claims about AdaptiveLearningContent                                    *)
(***************************************************************************)

\* the displayed response came from a call made for the selected gap in
\* the current mode
DisplayedForSelection ==
  /\ al_shown[1].gapIndex = al_currentGapIndex
  /\ al_shown[1].exerciseMode = al_exerciseMode

\* C27: whenever loading has finished, the displayed response is the result
\* of a call made for the selected gap and the current mode, and isLoading
\* is true as long as a call is outstanding.
C27_DisplayedMatchesSelection ==
  /\ al_inFlight # {} => al_isLoading
  /\ ~al_isLoading /\ al_response # <<>> => DisplayedForSelection

\* C29: a feedback request is made for a response only when every earlier
\* request for that response has failed, so no response has two successful
\* requests nor a request made while another is in flight.
C29_FeedbackAtMostOnce ==
  \A i, j \in DOMAIN al_posted :
    i < j /\ al_posted[i].fetch = al_posted[j].fetch => al_posted[i].outcome = "failed"

\* C30: currentGapIndex stays within the list of gaps; no step moves it past
\* either end; a step that changes it changes it by one and leaves
\* exerciseMode false; a step that turns exerciseMode on leaves it alone.
C30_GapIndexInRange ==
  /\ [](al_knowledgeGaps # <<>> =>
          al_currentGapIndex \in 0 .. Len(al_knowledgeGaps) - 1)
  /\ [][ /\ al_currentGapIndex = Len(al_knowledgeGaps) - 1 =>
              al_currentGapIndex' <= al_currentGapIndex
         /\ al_currentGapIndex = 0 => al_currentGapIndex' >= al_currentGapIndex
         /\ al_currentGapIndex' # al_currentGapIndex =>
              /\ al_currentGapIndex' \in {al_currentGapIndex - 1, al_currentGapIndex + 1}
              /\ ~al_exerciseMode'
         /\ al_exerciseMode' /\ ~al_exerciseMode =>
              al_currentGapIndex' = al_currentGapIndex ]_vars

\* the exercises of one gap are displayed and the next gap was selected
\* from them
C30_Witness ==
  /\ al_shown # <<>>
  /\ al_shown[1].exerciseMode
  /\ al_currentGapIndex = al_shown[1].gapIndex + 1
  /\ ~al_exerciseMode

(***************************************************************************)
(* Specifications                                                          *)
(***************************************************************************)

InitMedia == MediaInit /\ ResponseIdle /\ AssessIdle /\ HomeIdle /\ ExerciseIdle /\ FeedbackIdle /\ LearningIdle

NextMedia == CallValidateMediaUrl \/ CallGetFileType \/ CallGetFileTypeOfUrl

SpecMedia == InitMedia /\ [][NextMedia]_vars

InitResponse == ResponseInit /\ MediaIdle /\ AssessIdle /\ HomeIdle /\ ExerciseIdle /\ FeedbackIdle /\ LearningIdle

NextResponse == RenderAdaptiveResponse

SpecResponse == InitResponse /\ [][NextResponse]_vars

InitAssess == AssessInit /\ MediaIdle /\ ResponseIdle /\ HomeIdle /\ ExerciseIdle /\ FeedbackIdle /\ LearningIdle

NextAssess ==
  \/ ChangeUserId
  \/ SelectOption
  \/ TypeAnswer
  \/ HandleAnswer
  \/ AnalysisResolves
  \/ AnalysisRejects

SpecAssess == InitAssess /\ [][NextAssess]_vars

InitHome == HomeInit /\ MediaIdle /\ ResponseIdle /\ AssessIdle /\ ExerciseIdle /\ FeedbackIdle /\ LearningIdle

NextHome ==
  \/ ChangeQuery
  \/ SubmitForm
  \/ ClickSample
  \/ AnalyzeResolves
  \/ AnalyzeRejects
  \/ DismissError
  \/ clearChat

SpecHome == InitHome /\ [][NextHome]_vars

InitExercise == ExerciseInit /\ MediaIdle /\ ResponseIdle /\ AssessIdle /\ HomeIdle /\ FeedbackIdle /\ LearningIdle

NextExercise ==
  \/ FetchResolves
  \/ FetchFails
  \/ handleAnswerSelect
  \/ handleSubmit
  \/ handleReset

SpecExercise == InitExercise /\ [][NextExercise]_vars

InitFeedback ==
  FeedbackInit /\ MediaIdle /\ ResponseIdle /\ AssessIdle /\ HomeIdle /\ ExerciseIdle /\ LearningIdle

NextFeedback ==
  \/ ClickFeedback
  \/ SendFeedbackResolves
  \/ SendFeedbackRejects

SpecFeedback == InitFeedback /\ [][NextFeedback]_vars

InitLearning ==
  LearningInit /\ MediaIdle /\ ResponseIdle /\ AssessIdle /\ HomeIdle /\ ExerciseIdle /\ FeedbackIdle

NextLearning ==
  \/ toggleMode
  \/ navigateToNextGap
  \/ navigateToPreviousGap
  \/ LoadContent
  \/ RetryFetch
  \/ ContentResolves
  \/ ContentRejects
  \/ ClickLearningFeedback
  \/ LearningFeedbackResolves
  \/ LearningFeedbackRejects

SpecLearning == InitLearning /\ [][NextLearning]_vars
====
